---- MODULE Spec2Model ----
(***************************************************************************)
(* Holder accounting and distribution engine: the flywheel cycle           *)
(* (runPurchaseAndFees), the airdrop distributor (processAirdrop,          *)
(* sendAirdropBatch), the holder scanner and points calculator             *)
(* (updateGlobalState) and the storage handle they share.                  *)
(*                                                                         *)
(* Every action is the code that runs between two awaits of one async      *)
(* function: JavaScript runs such a stretch without interruption, and any  *)
(* other task may run at the await.  A fixed delay (setTimeout) is folded  *)
(* into the await that follows it.                                         *)
(*                                                                         *)
(* Units.  TLC's integers are 32 bits wide, so native-currency amounts are *)
(* counted in units of 10^5 lamports (LAMPORTS_PER_SOL is 10^4 of them)    *)
(* and the reward token keeps 3 of its 6 decimals (TOKEN_UNITS).  Float    *)
(* token amounts of the code (balance * 0.99 * 0.90 ...) are exact         *)
(* multiples of 1/1000 token for whole-token balances and are kept in      *)
(* that unit.                                                              *)
(***************************************************************************)
EXTENDS Integers, Sequences, FiniteSets, TLC

\* ------------------------------------------------------------ bounds
MaxFlyRuns == 1
MaxFairRuns == 1
MaxGuardFlyRuns == 2
MaxAirRuns == 1
MaxScanRuns == 2
MaxDistScans == 1
MaxPointsScans == 2
MaxCacheRuns == 1
MaxLogRuns == 1
MaxSnapScans == 2
MaxMixRuns == 1

\* --------------------------------------------------------- constants
LAMPORTS_PER_SOL == 10000
TOKEN_UNITS == 1000
AIRDROP_THRESHOLD == 50000
BATCH_SIZE == 8
ATA_CHECK_BATCH == 100
LOOKUP_RETRIES == 3
TOP_HOLDERS == 100
DUST_THRESHOLD == 1000000
ACCOUNT_LAYOUT_LEN == 72
TOP_TOKENS == 10
ASDF_TOP_HOLDERS == 100
TOKEN_ACCOUNT_SIZE == 165

SAFETY_BUFFER == (5 * LAMPORTS_PER_SOL) \div 100
ATA_RENT_COST == (203928 * LAMPORTS_PER_SOL) \div 100000000
MIN_SPEND == (5 * LAMPORTS_PER_SOL) \div 100
FEE_THRESHOLD == (20 * LAMPORTS_PER_SOL) \div 100
FALLBACK_COST == (5 * LAMPORTS_PER_SOL) \div 100

\* ---------------------------------------------------------- addresses
DEV == "dev"
PUMP_LIQUIDITY == "liq"
NoAddr == "none"

FlyProcs == {"f1", "f2"}
ExtProc == "ext"
AirProcs == FlyProcs \cup {ExtProc}

\* ------------------------------------------------------------ helpers
Min(a, b) == IF a < b THEN a ELSE b

RECURSIVE SumSeq(_)
SumSeq(s) == IF s = <<>> THEN 0 ELSE Head(s) + SumSeq(Tail(s))

Range(s) == {s[i] : i \in 1..Len(s)}

Take(s, n) == SubSeq(s, 1, Min(n, Len(s)))

\* ------------------------------------------------ ledger token accounts
\* PublicKey.findProgramAddressSync(["bonding-curve", mint]): one escrow
\* address per mint.
BondingCurvePDA(m) == IF m = "m1" THEN "bc1" ELSE "bc2"

\* A fixed order of the addresses, standing for the order in which the
\* storage engine returns the groups of GROUP BY holderPubkey.
AddrSeq == <<"bc1", "bc2", "dev", "liq",
             "u1", "u2", "u3", "u4", "u5", "u6", "u7", "u8", "u9",
             "v10", "v11", "v12", "v13", "v14", "v15", "v16", "v17">>

\* new BN(bytes, 'le'): the little-endian bytes of the amount field, most
\* significant byte last.
RECURSIVE DecodeLE(_)
DecodeLE(bytes) ==
    IF bytes = <<>> THEN 0 ELSE Head(bytes) + 256 * DecodeLE(Tail(bytes))

RECURSIVE EncodeLE(_, _)
EncodeLE(n, len) ==
    IF len = 0 THEN <<>> ELSE <<n % 256>> \o EncodeLE(n \div 256, len - 1)

\* A raw account buffer as the ledger returns it: its length, and the owner
\* and amount fields when the buffer is long enough to hold them.
Buffer(len, owner, amount) ==
    [len |-> len, owner |-> owner, amountBytes |-> EncodeLE(amount, 8)]

\* One element of accounts.map(...): null (ok = FALSE) for a short buffer.
ParseAccount(data) ==
    IF data.len < ACCOUNT_LAYOUT_LEN
    THEN [ok |-> FALSE, owner |-> NoAddr, amount |-> 0]
    ELSE [ok |-> TRUE, owner |-> data.owner,
          amount |-> DecodeLE(data.amountBytes)]

\* Array.prototype.sort((a, b) => b.amount.cmp(a.amount)): stable, descending.
RECURSIVE InsertDesc(_, _)
InsertDesc(sorted, a) ==
    IF sorted = <<>> THEN <<a>>
    ELSE IF Head(sorted).amount >= a.amount
         THEN <<Head(sorted)>> \o InsertDesc(Tail(sorted), a)
         ELSE <<a>> \o sorted

RECURSIVE SortDesc(_)
SortDesc(s) ==
    IF s = <<>> THEN <<>>
    ELSE InsertDesc(SortDesc(SubSeq(s, 1, Len(s) - 1)), s[Len(s)])

ParsedAccounts(accounts) ==
    LET parsed == [i \in 1..Len(accounts) |-> ParseAccount(accounts[i])]
    IN  SortDesc(SelectSeq(parsed, LAMBDA a : a.ok))

\* The loop that fills holdersToInsert.
RECURSIVE SelectHolders(_, _, _)
SelectHolders(parsed, bc, acc) ==
    IF parsed = <<>> \/ Len(acc) >= TOP_HOLDERS THEN acc
    ELSE LET a == Head(parsed)
         IN  IF a.amount <= DUST_THRESHOLD
             THEN SelectHolders(Tail(parsed), bc, acc)
             ELSE IF a.owner # PUMP_LIQUIDITY /\ a.owner # bc
                  THEN SelectHolders(Tail(parsed), bc, Append(acc, a.owner))
                  ELSE SelectHolders(Tail(parsed), bc, acc)

HoldersToInsert(accounts, mint) ==
    SelectHolders(ParsedAccounts(accounts), BondingCurvePDA(mint), <<>>)


\* ------------------------------------------------ points and pot split
\* Float token amounts, in 1/1000 token.  rawHoldings * 0.99
TotalDistributable(rawHoldings) == rawHoldings * 990

\* totalDistributable * 0.10
KothPot(totalDistributable) == totalDistributable \div 10

\* A community pot that keeps the bonus share.
CommunityPotFull(totalDistributable) == totalDistributable

\* totalDistributable * 0.90
CommunityPot(totalDistributable) == (totalDistributable * 9) \div 10

\* SELECT mint, userPubkey FROM tokens ORDER BY volume24h DESC LIMIT 10.
\* The tokens table is kept in descending order of volume24h.
TopTokens(tokenTable) == Take(tokenTable, TOP_TOKENS)

\* SELECT userPubkey FROM tokens ORDER BY marketCap DESC LIMIT 1: the first
\* row of the largest market capitalization; ok = FALSE on an empty table.
KothToken(tokenTable) ==
    IF tokenTable = <<>>
    THEN [ok |-> FALSE, userPubkey |-> NoAddr, ticker |-> "None"]
    ELSE LET best == CHOOSE i \in 1..Len(tokenTable) :
                       /\ \A j \in 1..Len(tokenTable) :
                            tokenTable[j].marketCap <= tokenTable[i].marketCap
                       /\ \A j \in 1..(i - 1) :
                            tokenTable[j].marketCap < tokenTable[i].marketCap
         IN  [ok |-> TRUE, userPubkey |-> tokenTable[best].userPubkey,
              ticker |-> tokenTable[best].ticker]

\* A count without the WHERE mint IN (...) clause.
PositionCountAllMints(rows, mints, addr) ==
    Cardinality({i \in 1..Len(rows) : rows[i].holderPubkey = addr})

\* SELECT holderPubkey, COUNT(*) ... WHERE mint IN (top10Mints) GROUP BY
\* holderPubkey, over the rows the storage handle currently shows.
PositionCount(rows, mints, addr) ==
    Cardinality({i \in 1..Len(rows) :
                   rows[i].holderPubkey = addr /\ rows[i].mint \in mints})

HolderRows(rows, mints) ==
    LET held == SelectSeq(AddrSeq, LAMBDA a : PositionCount(rows, mints, a) > 0)
    IN  [i \in 1..Len(held) |->
           [pubkey |-> held[i],
            holderPoints |-> PositionCount(rows, mints, held[i]),
            creatorPoints |-> 0]]

\* for (const token of topTokens) if (token.userPubkey) creatorPoints += 1
RECURSIVE AddCreators(_, _)
AddCreators(raw, toks) ==
    IF toks = <<>> THEN raw
    ELSE LET c == Head(toks).userPubkey
             at == {i \in 1..Len(raw) : raw[i].pubkey = c}
         IN  IF c = NoAddr THEN AddCreators(raw, Tail(toks))
             ELSE IF at = {}
                  THEN AddCreators(
                         Append(raw, [pubkey |-> c, holderPoints |-> 0,
                                      creatorPoints |-> 1]),
                         Tail(toks))
                  ELSE AddCreators(
                         [i \in 1..Len(raw) |->
                            IF i \in at
                            THEN [raw[i] EXCEPT !.creatorPoints = @ + 1]
                            ELSE raw[i]],
                         Tail(toks))

\* rawPointsMap: empty when there is no tracked mint.
RawPointsMap(rows, topTokens) ==
    IF topTokens = <<>> THEN <<>>
    ELSE AddCreators(HolderRows(rows, {topTokens[i].mint : i \in 1..Len(topTokens)}),
                     topTokens)

\* (holderPoints + creatorPoints * 2) * (isAsdfTop100 ? 2 : 1)
Points(entry, asdf) ==
    (entry.holderPoints + entry.creatorPoints * 2)
      * (IF entry.pubkey \in asdf THEN 2 ELSE 1)

\* The entries that count: not the dev wallet, points > 0.
Scored(raw, asdf) ==
    LET kept == SelectSeq(raw, LAMBDA e : e.pubkey # DEV /\ Points(e, asdf) > 0)
    IN  [i \in 1..Len(kept) |->
           [pubkey |-> kept[i].pubkey, points |-> Points(kept[i], asdf)]]

\* A total that leaves the multiplier out.
TempTotalPointsNoMultiplier(raw, asdf) ==
    LET sc == Scored(raw, {})
    IN  SumSeq([i \in 1..Len(sc) |-> sc[i].points])

\* tempTotalPoints
TempTotalPoints(raw, asdf) ==
    LET sc == Scored(raw, asdf)
    IN  SumSeq([i \in 1..Len(sc) |-> sc[i].points])

\* expected = (points / totalPoints) * communityPot, plus kothPot for the
\* KOTH creator.
Expected(points, total, communityPot, isKoth, kothPot) ==
    (IF communityPot > 0 /\ total > 0
     THEN (points * communityPot) \div total ELSE 0)
    + (IF isKoth THEN kothPot ELSE 0)

\* A rebuild without the edge case of the KOTH creator that has no points.
ExpectedMapNoEdgeCase(raw, asdf, total, communityPot, kothCreator, kothPot) ==
    LET sc == Scored(raw, asdf)
    IN  [i \in 1..Len(sc) |->
           [pubkey |-> sc[i].pubkey,
            expected |-> Expected(sc[i].points, total, communityPot,
                                  sc[i].pubkey = kothCreator, kothPot)]]

\* userExpectedAirdrops after the rebuild, with the zero-point KOTH creator
\* appended.
ExpectedMap(raw, asdf, total, communityPot, kothCreator, kothPot) ==
    LET sc == Scored(raw, asdf)
        base == [i \in 1..Len(sc) |->
                   [pubkey |-> sc[i].pubkey,
                    expected |-> Expected(sc[i].points, total, communityPot,
                                          sc[i].pubkey = kothCreator, kothPot)]]
    IN  IF /\ kothCreator # NoAddr
           /\ \A i \in 1..Len(base) : base[i].pubkey # kothCreator
           /\ kothCreator # DEV
        THEN Append(base, [pubkey |-> kothCreator, expected |-> kothPot])
        ELSE base

\* ------------------------------------------------------------- state
VARIABLES
    isBuybackRunning, isAirdropping,          \* the re-entrancy guards
    devPumpHoldings, totalPoints,             \* globalState
    userPointsMap, userExpectedAirdrops,
    conservationStatus, asdfTop50Holders,
    tokens, token_holders, airdrop_logs,      \* the storage handle
    stats, dbTxn,
    purchaseLog,                              \* the cycle log (logPurchase)
    fpc, floc, flyRuns,                       \* runPurchaseAndFees invocations
    apc, aloc, airRuns,                       \* processAirdrop invocations
    spc, sloc, scanRuns,                      \* updateGlobalState invocations
    env,                                      \* the environment
    holdingsGen, pointsGen                    \* which scanner cycle wrote what

globalVars == <<devPumpHoldings, totalPoints, userPointsMap,
                userExpectedAirdrops, conservationStatus, asdfTop50Holders>>
dbVars == <<tokens, token_holders, airdrop_logs, stats, dbTxn>>
flyVars == <<fpc, floc, flyRuns>>
airVars == <<apc, aloc, airRuns>>
scanVars == <<spc, sloc, scanRuns>>
envVars == <<env>>
genVars == <<holdingsGen, pointsGen>>
vars == <<isBuybackRunning, isAirdropping, globalVars, dbVars, purchaseLog,
          flyVars, airVars, scanVars, envVars, genVars>>


\* -------------------------------------------------------- environment
\* env is fixed by the initial state: the fetch results and native balances
\* the ledger may show, the calls that may throw, and how many times each
\* entry point is invoked.
Outcomes(call) == IF call \in env.faults THEN BOOLEAN ELSE {TRUE}

\* ------------------------------------------------------------ storage
\* One connection shared by every task: a statement issued by any task while
\* a transaction is open runs inside that transaction.
ZeroStats == [lifetimeCreatorFeesLamports |-> 0, totalPumpBoughtLamports |-> 0]

NoSnapshot == [token_holders |-> <<>>, airdrop_logs |-> <<>>, stats |-> ZeroStats]

Snapshot == [token_holders |-> token_holders, airdrop_logs |-> airdrop_logs,
             stats |-> stats]

\* The stored holder snapshot of one mint, as a read on the handle shows it.
SnapshotOf(rows, mint) == SelectSeq(rows, LAMBDA r : r.mint = mint)

\* DELETE FROM token_holders WHERE mint = ?
DeleteHolders(rows, mint) == SelectSeq(rows, LAMBDA r : r.mint # mint)

\* A variant that numbers a row by its place in the table.
InsertOrIgnoreByPlace(rows, mint, holder, rank) ==
    IF \E i \in 1..Len(rows) : rows[i].mint = mint /\ rows[i].holderPubkey = holder
    THEN rows
    ELSE Append(rows, [mint |-> mint, holderPubkey |-> holder,
                       rank |-> Len(rows) + 1])

\* INSERT OR IGNORE INTO token_holders (mint, holderPubkey, rank, ...): a row
\* of the same mint and holder is already there: the statement is ignored.
InsertOrIgnore(rows, mint, holder, rank) ==
    IF \E i \in 1..Len(rows) : rows[i].mint = mint /\ rows[i].holderPubkey = holder
    THEN rows
    ELSE Append(rows, [mint |-> mint, holderPubkey |-> holder, rank |-> rank])

\* The INSERT loop over holdersToInsert as a whole, rank counting from 1.
RECURSIVE InsertAll(_, _, _, _)
InsertAll(rows, mint, holders, rank) ==
    IF holders = <<>> THEN rows
    ELSE InsertAll(InsertOrIgnore(rows, mint, Head(holders), rank), mint,
                   Tail(holders), rank + 1)

\* ------------------------------------------------------ holder scanner
ScanProcsAll == {"s1", "s2"}

\* What getTokenAccountBalance may show, in whole tokens; -1: it throws.
HoldingChoices == {-1, 60000}

\* The locals of one invocation.  prev, failed and scanned are not in the
\* code: the snapshot of the mint stored when its scan started, whether a
\* step of the scan has thrown, and the places in topTokens of the tokens
\* the loop has taken up so far, in that order.
ScanIdle == [cycle |-> 0, topTokens |-> <<>>, kothPot |-> 0, communityPot |-> 0,
             kothCreator |-> NoAddr, idx |-> 0, accounts |-> <<>>,
             holders |-> <<>>, ins |-> 0,
             prev |-> <<>>, failed |-> FALSE, scanned |-> <<>>]

\* The index of the next token of the loop that has a mint, from i on; 0 when
\* the loop is over.
NextTokenIdx(toks, i) ==
    LET rest == {j \in i..Len(toks) : toks[j].mint # NoAddr}
    IN  IF rest = {} THEN 0 ELSE CHOOSE j \in rest : \A k \in rest : j <= k

\* What a cycle publishes from the grouped rows: the point total and the
\* two maps.
PointsState(rows, topTokens, asdf, communityPot, kothCreator, kothPot) ==
    LET raw == RawPointsMap(rows, topTokens)
        total == TempTotalPoints(raw, asdf)
    IN  [totalPoints |-> total,
         userPointsMap |-> Scored(raw, asdf),
         userExpectedAirdrops |->
            ExpectedMap(raw, asdf, total, communityPot, kothCreator, kothPot)]

\* A publication that yields after the first entry of the rebuild.
PublishPartly(loc, rows) ==
    LET ps == PointsState(rows, loc.topTokens, asdfTop50Holders,
                          loc.communityPot, loc.kothCreator, loc.kothPot)
    IN  /\ totalPoints' = ps.totalPoints
        /\ userPointsMap' = Take(ps.userPointsMap, 1)
        /\ userExpectedAirdrops' = Take(ps.userExpectedAirdrops, 1)
        /\ pointsGen' = loc.cycle

\* globalState.totalPoints = ...; the two maps cleared and rebuilt; no await
\* in between.
Publish(loc, rows) ==
    LET ps == PointsState(rows, loc.topTokens, asdfTop50Holders,
                          loc.communityPot, loc.kothCreator, loc.kothPot)
    IN  /\ totalPoints' = ps.totalPoints
        /\ userPointsMap' = ps.userPointsMap
        /\ userExpectedAirdrops' = ps.userExpectedAirdrops
        /\ pointsGen' = loc.cycle

\* The loop over topTokens goes on at token i (after the 2 s delay): the
\* fetch of the next mint, or the grouped query, or, with no tracked token,
\* the publication at once.  rows: token_holders as this step leaves it.
ScanAdvance(s, loc, i, rows) ==
    LET j == NextTokenIdx(loc.topTokens, i)
    IN  IF j > 0
        THEN /\ spc' = [spc EXCEPT ![s] = "fetch"]
             /\ sloc' = [sloc EXCEPT ![s] =
                          [loc EXCEPT !.idx = j, !.accounts = <<>>,
                                      !.holders = <<>>, !.ins = 0,
                                      !.prev = SnapshotOf(rows, loc.topTokens[j].mint),
                                      !.failed = FALSE,
                                      !.scanned = Append(@, j)]]
             /\ UNCHANGED <<totalPoints, userPointsMap, userExpectedAirdrops,
                            pointsGen>>
        ELSE IF loc.topTokens # <<>>
        THEN /\ spc' = [spc EXCEPT ![s] = "rows"]
             /\ sloc' = [sloc EXCEPT ![s] =
                          [loc EXCEPT !.idx = 0, !.accounts = <<>>,
                                      !.holders = <<>>, !.ins = 0,
                                      !.prev = <<>>, !.failed = FALSE]]
             /\ UNCHANGED <<totalPoints, userPointsMap, userExpectedAirdrops,
                            pointsGen>>
        ELSE /\ Publish(loc, <<>>)
             /\ spc' = [spc EXCEPT ![s] = "idle"]
             /\ sloc' = [sloc EXCEPT ![s] = ScanIdle]

ScanMint(s) == sloc[s].topTokens[sloc[s].idx].mint

\* setInterval / setTimeout fire updateGlobalState; it runs to its first
\* await, db.all(... FROM tokens ...).
ScanInvoke(s) ==
    /\ spc[s] = "idle"
    /\ scanRuns < env.maxScan
    /\ scanRuns' = scanRuns + 1
    /\ spc' = [spc EXCEPT ![s] = "tokens"]
    /\ sloc' = [sloc EXCEPT ![s] = [ScanIdle EXCEPT !.cycle = scanRuns + 1]]
    /\ UNCHANGED <<isBuybackRunning, isAirdropping, globalVars, dbVars,
                   purchaseLog, flyVars, airVars, envVars, genVars>>

\* The tracked tokens arrive (or the query throws: the cycle ends in the
\* outer catch); next await: getTokenAccountBalance.
ScanTokens(s) ==
    /\ spc[s] = "tokens"
    /\ \E ok \in Outcomes("tokens") :
         IF ok
         THEN /\ spc' = [spc EXCEPT ![s] = "holdings"]
              /\ sloc' = [sloc EXCEPT ![s].topTokens = TopTokens(tokens)]
         ELSE /\ spc' = [spc EXCEPT ![s] = "idle"]
              /\ sloc' = [sloc EXCEPT ![s] = ScanIdle]
    /\ UNCHANGED <<isBuybackRunning, isAirdropping, globalVars, dbVars,
                   purchaseLog, flyVars, airVars, scanRuns, envVars, genVars>>

\* The dev wallet's reward-token balance is written to the shared state as
\* soon as it is read (0 when the read throws); the pots are computed from
\* it; next await: db.get of the KOTH token.
ScanHoldings(s) ==
    /\ spc[s] = "holdings"
    /\ \E h \in HoldingChoices :
         LET held == IF h < 0 THEN 0 ELSE h
             dist == TotalDistributable(held)
         IN  /\ devPumpHoldings' = held
             /\ sloc' = [sloc EXCEPT ![s].kothPot = KothPot(dist),
                                     ![s].communityPot = CommunityPot(dist)]
    /\ holdingsGen' = sloc[s].cycle
    /\ spc' = [spc EXCEPT ![s] = "koth"]
    /\ UNCHANGED <<isBuybackRunning, isAirdropping, totalPoints, userPointsMap,
                   userExpectedAirdrops, conservationStatus, asdfTop50Holders,
                   dbVars, purchaseLog, flyVars, airVars, scanRuns, envVars,
                   pointsGen>>

\* The KOTH token arrives (or the query throws); the loop over the tracked
\* tokens starts.
ScanKoth(s) ==
    /\ spc[s] = "koth"
    /\ \E ok \in Outcomes("koth") :
         IF ok
         THEN LET k == KothToken(tokens)
                  loc == [sloc[s] EXCEPT !.kothCreator =
                            IF k.ok THEN k.userPubkey ELSE NoAddr]
              IN  ScanAdvance(s, loc, 1, token_holders)
         ELSE /\ spc' = [spc EXCEPT ![s] = "idle"]
              /\ sloc' = [sloc EXCEPT ![s] = ScanIdle]
              /\ UNCHANGED <<totalPoints, userPointsMap, userExpectedAirdrops,
                             pointsGen>>
    /\ UNCHANGED <<isBuybackRunning, isAirdropping, devPumpHoldings,
                   conservationStatus, asdfTop50Holders, dbVars, purchaseLog,
                   flyVars, airVars, scanRuns, envVars, holdingsGen>>

\* getProgramAccounts returns (or throws: holdersToInsert stays empty); the
\* holders are selected; next await: BEGIN TRANSACTION.
ScanFetch(s) ==
    /\ spc[s] = "fetch"
    /\ \E ok \in Outcomes("getProgramAccounts"), accounts \in env.accounts :
         sloc' = [sloc EXCEPT
                    ![s].accounts = IF ok THEN accounts ELSE <<>>,
                    ![s].holders =
                       IF ok THEN HoldersToInsert(accounts, ScanMint(s)) ELSE <<>>,
                    ![s].failed = ~ok]
    /\ spc' = [spc EXCEPT ![s] = "begin"]
    /\ UNCHANGED <<isBuybackRunning, isAirdropping, globalVars, dbVars,
                   purchaseLog, flyVars, airVars, scanRuns, envVars, genVars>>

\* BEGIN TRANSACTION is done (it throws when a transaction is already open
\* on the handle, or on a storage error: the mint is skipped); next await:
\* the DELETE.
ScanBegin(s) ==
    /\ spc[s] = "begin"
    /\ \E ok \in Outcomes("BEGIN") :
         IF ok /\ ~dbTxn.open
         THEN /\ dbTxn' = [open |-> TRUE, saved |-> Snapshot]
              /\ spc' = [spc EXCEPT ![s] = "delete"]
              /\ sloc' = sloc
              /\ UNCHANGED <<totalPoints, userPointsMap, userExpectedAirdrops,
                             pointsGen>>
         ELSE /\ dbTxn' = dbTxn
              /\ ScanAdvance(s, sloc[s], sloc[s].idx + 1, token_holders)
    /\ UNCHANGED <<isBuybackRunning, isAirdropping, devPumpHoldings,
                   conservationStatus, asdfTop50Holders, tokens, token_holders,
                   airdrop_logs, stats, purchaseLog, flyVars, airVars, scanRuns,
                   envVars, holdingsGen>>

\* The DELETE of the mint's rows is done (or throws: ROLLBACK is awaited);
\* next await: the first INSERT, or COMMIT when there is nothing to insert.
ScanDelete(s) ==
    /\ spc[s] = "delete"
    /\ \E ok \in Outcomes("DELETE") :
         IF ok
         THEN /\ token_holders' = DeleteHolders(token_holders, ScanMint(s))
              /\ spc' = [spc EXCEPT ![s] =
                           IF Len(sloc[s].holders) > 0 THEN "insert" ELSE "commit"]
              /\ sloc' = [sloc EXCEPT ![s].ins = 1]
         ELSE /\ token_holders' = token_holders
              /\ spc' = [spc EXCEPT ![s] = "rollback"]
              /\ sloc' = [sloc EXCEPT ![s].failed = TRUE]
    /\ UNCHANGED <<isBuybackRunning, isAirdropping, globalVars, tokens,
                   airdrop_logs, stats, dbTxn, purchaseLog, flyVars, airVars,
                   scanRuns, envVars, genVars>>

\* One INSERT OR IGNORE is done (or throws); rank++.
ScanInsert(s) ==
    /\ spc[s] = "insert"
    /\ \E ok \in Outcomes("INSERT") :
         IF ok
         THEN /\ token_holders' =
                   InsertOrIgnore(token_holders, ScanMint(s),
                                  sloc[s].holders[sloc[s].ins], sloc[s].ins)
              /\ spc' = [spc EXCEPT ![s] =
                           IF sloc[s].ins < Len(sloc[s].holders)
                           THEN "insert" ELSE "commit"]
              /\ sloc' = [sloc EXCEPT ![s].ins = @ + 1]
         ELSE /\ token_holders' = token_holders
              /\ spc' = [spc EXCEPT ![s] = "rollback"]
              /\ sloc' = [sloc EXCEPT ![s].failed = TRUE]
    /\ UNCHANGED <<isBuybackRunning, isAirdropping, globalVars, tokens,
                   airdrop_logs, stats, dbTxn, purchaseLog, flyVars, airVars,
                   scanRuns, envVars, genVars>>

\* COMMIT is done (or throws: ROLLBACK is awaited); then the 2 s delay and
\* the next token.
ScanCommit(s) ==
    /\ spc[s] = "commit"
    /\ \E ok \in Outcomes("COMMIT") :
         IF ok /\ dbTxn.open
         THEN /\ dbTxn' = [open |-> FALSE, saved |-> NoSnapshot]
              /\ ScanAdvance(s, sloc[s], sloc[s].idx + 1, token_holders)
         ELSE /\ dbTxn' = dbTxn
              /\ spc' = [spc EXCEPT ![s] = "rollback"]
              /\ sloc' = [sloc EXCEPT ![s].failed = TRUE]
              /\ UNCHANGED <<totalPoints, userPointsMap, userExpectedAirdrops,
                             pointsGen>>
    /\ UNCHANGED <<isBuybackRunning, isAirdropping, devPumpHoldings,
                   conservationStatus, asdfTop50Holders, tokens, token_holders,
                   airdrop_logs, stats, purchaseLog, flyVars, airVars, scanRuns,
                   envVars, holdingsGen>>

\* A variant in which the error of a failed replace ends the invocation.
ScanRollbackAborts(s) ==
    /\ spc[s] = "rollback"
    /\ spc' = [spc EXCEPT ![s] = "idle"]
    /\ sloc' = [sloc EXCEPT ![s] = ScanIdle]
    /\ UNCHANGED <<isBuybackRunning, isAirdropping, globalVars, dbVars,
                   purchaseLog, flyVars, airVars, scanRuns, envVars, genVars>>

\* ROLLBACK is done: every table is as it was at BEGIN; or ROLLBACK itself
\* throws and the transaction stays open.  Either way the error reaches the
\* catch of the loop body, and the loop goes on with the next token.
ScanRollback(s) ==
    /\ spc[s] = "rollback"
    /\ \E ok \in Outcomes("ROLLBACK") :
         IF ok /\ dbTxn.open
         THEN /\ token_holders' = dbTxn.saved.token_holders
              /\ airdrop_logs' = dbTxn.saved.airdrop_logs
              /\ stats' = dbTxn.saved.stats
              /\ dbTxn' = [open |-> FALSE, saved |-> NoSnapshot]
              /\ ScanAdvance(s, sloc[s], sloc[s].idx + 1,
                             dbTxn.saved.token_holders)
         ELSE /\ UNCHANGED <<token_holders, airdrop_logs, stats, dbTxn>>
              /\ ScanAdvance(s, sloc[s], sloc[s].idx + 1, token_holders)
    /\ UNCHANGED <<isBuybackRunning, isAirdropping, devPumpHoldings,
                   conservationStatus, asdfTop50Holders, tokens, purchaseLog,
                   flyVars, airVars, scanRuns, envVars, holdingsGen>>

\* A variant that clears both maps before it awaits the grouped rows.
ScanRowsClearsFirst(s) ==
    /\ spc[s] = "rows"
    /\ \E ok \in Outcomes("rows") :
         IF ok
         THEN Publish(sloc[s], token_holders)
         ELSE /\ userPointsMap' = <<>>
              /\ userExpectedAirdrops' = <<>>
              /\ UNCHANGED <<totalPoints, pointsGen>>
    /\ spc' = [spc EXCEPT ![s] = "idle"]
    /\ sloc' = [sloc EXCEPT ![s] = ScanIdle]
    /\ UNCHANGED <<isBuybackRunning, isAirdropping, devPumpHoldings,
                   conservationStatus, asdfTop50Holders, dbVars, purchaseLog,
                   flyVars, airVars, scanRuns, envVars, holdingsGen>>

\* The grouped holder rows arrive (or the query throws: nothing is
\* published); the points and both maps are published.
ScanRows(s) ==
    /\ spc[s] = "rows"
    /\ \E ok \in Outcomes("rows") :
         IF ok
         THEN Publish(sloc[s], token_holders)
         ELSE UNCHANGED <<totalPoints, userPointsMap, userExpectedAirdrops,
                          pointsGen>>
    /\ spc' = [spc EXCEPT ![s] = "idle"]
    /\ sloc' = [sloc EXCEPT ![s] = ScanIdle]
    /\ UNCHANGED <<isBuybackRunning, isAirdropping, devPumpHoldings,
                   conservationStatus, asdfTop50Holders, dbVars, purchaseLog,
                   flyVars, airVars, scanRuns, envVars, holdingsGen>>


\* -------------------------------------------------- airdrop distributor
\* A float of the code that is a quotient of integers: num / den.
Rat(num, den) == [num |-> num, den |-> den]

\* n < r for an integer n and a quotient r.
LessThanRat(n, r) == n * r.den < r.num

NoStatus == [present |-> FALSE, eligibleCount |-> 0, missingAtas |-> 0,
             estimatedCost |-> Rat(0, 1), currentSol |-> Rat(0, 1),
             pumpBalance |-> 0, isConserving |-> FALSE]

\* globalState.conservationStatus?.estimatedCost || (0.05 * LAMPORTS_PER_SOL)
CachedCost(cs) ==
    IF cs.present /\ cs.estimatedCost.num # 0
    THEN cs.estimatedCost
    ELSE Rat(FALLBACK_COST, 1)

\* new BN(amount * 1000000): a float token amount (in 1/1000 token) in the
\* token's smallest unit.
ToUnits(amount) ==
    (amount \div 1000) * TOKEN_UNITS + ((amount % 1000) * TOKEN_UNITS) \div 1000


\* The locals of one invocation.  batchLog and missing are not in the code:
\* the batches sendAirdropBatch has been given so far with what became of
\* each, and the positions of the batch being sent whose receiving account
\* the lookup reported as missing.
AirIdle == [balance |-> 0, solBalance |-> 0, cachedCost |-> Rat(0, 1),
            totalDistributable |-> 0, kothAmount |-> 0, communityAmount |-> 0,
            kothUser |-> NoAddr, kothTicker |-> "None", kothTxSignature |-> 0,
            communityAmountInt |-> 0, userPoints |-> <<>>, next |-> 0,
            allSignatures |-> <<>>, successfulBatches |-> 0,
            failedBatches |-> 0,
            sending |-> <<>>, phase |-> "none", retries |-> 0, tx |-> <<>>,
            batchLog |-> <<>>, missing |-> {}, outcome |-> "none"]

\* A loop that closes a batch one recipient late.
RECURSIVE FillBatchLate(_, _, _, _, _)
FillBatchLate(users, i, batch, potInt, total) ==
    IF i > Len(users) THEN [batch |-> batch, next |-> i, err |-> FALSE]
    ELSE IF total = 0 THEN [batch |-> batch, next |-> i, err |-> TRUE]
    ELSE LET share == (potInt * users[i].points) \div total
             grown == Append(batch, [user |-> users[i].pubkey, amount |-> share])
         IN  IF share = 0 THEN FillBatchLate(users, i + 1, batch, potInt, total)
             ELSE IF Len(grown) > BATCH_SIZE
                  THEN [batch |-> grown, next |-> i + 1, err |-> FALSE]
                  ELSE FillBatchLate(users, i + 1, grown, potInt, total)

\* for (const user of userPoints) { share = pot * points / totalPoints; ... }
\* from user i on, until a batch is full or the list ends.  err: the
\* division by a zero point total throws.
RECURSIVE FillBatch(_, _, _, _, _)
FillBatch(users, i, batch, potInt, total) ==
    IF i > Len(users) THEN [batch |-> batch, next |-> i, err |-> FALSE]
    ELSE IF total = 0 THEN [batch |-> batch, next |-> i, err |-> TRUE]
    ELSE LET share == (potInt * users[i].points) \div total
             grown == Append(batch, [user |-> users[i].pubkey, amount |-> share])
         IN  IF share = 0 THEN FillBatch(users, i + 1, batch, potInt, total)
             ELSE IF Len(grown) >= BATCH_SIZE
                  THEN [batch |-> grown, next |-> i + 1, err |-> FALSE]
                  ELSE FillBatch(users, i + 1, grown, potInt, total)

\* A forEach that tests infos[idx] the wrong way round.
RECURSIVE InstructionsInverted(_, _, _)
InstructionsInverted(batch, missing, idx) ==
    IF idx > Len(batch) THEN <<>>
    ELSE (IF idx \notin missing
          THEN <<[op |-> "createIdempotent", user |-> batch[idx].user, amount |-> 0]>>
          ELSE <<>>)
         \o <<[op |-> "transfer", user |-> batch[idx].user,
               amount |-> batch[idx].amount]>>
         \o InstructionsInverted(batch, missing, idx + 1)

\* batch.forEach: the create instruction of a missing account, then the
\* transfer.
RECURSIVE Instructions(_, _, _)
Instructions(batch, missing, idx) ==
    IF idx > Len(batch) THEN <<>>
    ELSE (IF idx \in missing
          THEN <<[op |-> "createIdempotent", user |-> batch[idx].user, amount |-> 0]>>
          ELSE <<>>)
         \o <<[op |-> "transfer", user |-> batch[idx].user,
               amount |-> batch[idx].amount]>>
         \o Instructions(batch, missing, idx + 1)

\* What getMultipleAccountsInfo may report as missing among n accounts: none,
\* all, or every other one.
MissingChoices(n) == {{}, 1..n, {i \in 1..n : i % 2 = 1}}

\* A processAirdrop without its finally block: the early returns release
\* the guard themselves, an exception or the normal end does not.
AirFinishNoFinally(q, loc, outcome) ==
    /\ apc' = [apc EXCEPT ![q] = "done"]
    /\ aloc' = [aloc EXCEPT ![q] = [loc EXCEPT !.outcome = outcome]]
    /\ isAirdropping' = (outcome \in {"error", "logged"})

\* return / finally: the guard is released and the invocation is over.
AirFinish(q, loc, outcome) ==
    /\ apc' = [apc EXCEPT ![q] = "done"]
    /\ aloc' = [aloc EXCEPT ![q] = [loc EXCEPT !.outcome = outcome]]
    /\ isAirdropping' = FALSE

\* A sendAirdropBatch that allows one lookup more.
AirSendBatchFourTries(q, loc, batch, phase) ==
    /\ apc' = [apc EXCEPT ![q] = "lookup"]
    /\ aloc' = [aloc EXCEPT ![q] = [loc EXCEPT !.sending = batch,
                                              !.phase = phase,
                                              !.retries = LOOKUP_RETRIES + 1]]
    /\ isAirdropping' = isAirdropping

\* sendAirdropBatch(batch) starts: next await is getMultipleAccountsInfo.
AirSendBatch(q, loc, batch, phase) ==
    /\ apc' = [apc EXCEPT ![q] = "lookup"]
    /\ aloc' = [aloc EXCEPT ![q] = [loc EXCEPT !.sending = batch,
                                              !.phase = phase,
                                              !.retries = LOOKUP_RETRIES]]
    /\ isAirdropping' = isAirdropping

\* The loop over userPoints runs from loc.next with an empty batch, reading
\* globalState.totalPoints as it is now.
AirCommunityLoop(q, loc) ==
    LET r == FillBatch(loc.userPoints, loc.next, <<>>, loc.communityAmountInt,
                       totalPoints)
        loc2 == [loc EXCEPT !.next = r.next]
    IN  IF r.err THEN AirFinish(q, loc2, "error")
        ELSE IF r.batch # <<>>
             THEN AirSendBatch(q, loc2, r.batch,
                               IF Len(r.batch) >= BATCH_SIZE THEN "batch" ELSE "last")
             ELSE /\ apc' = [apc EXCEPT ![q] = "log"]
                  /\ aloc' = [aloc EXCEPT ![q] = loc2]
                  /\ isAirdropping' = isAirdropping

\* A community distribution that records the bonus reference without its
\* prefix.
AirCommunityNoPrefix(q, loc) ==
    LET users == SelectSeq(userPointsMap, LAMBDA u : u.points > 0)
        loc2 == [loc EXCEPT
                   !.communityAmountInt = ToUnits(loc.communityAmount),
                   !.userPoints = users,
                   !.allSignatures =
                      IF loc.kothTxSignature # 0
                      THEN <<[prefix |-> "", sig |-> loc.kothTxSignature]>>
                      ELSE <<>>,
                   !.next = 1]
    IN  IF totalPoints = 0 \/ users = <<>>
        THEN AirFinish(q, loc2, "abortPoints")
        ELSE AirCommunityLoop(q, loc2)

\* 3. Process Community Distribution: the pot in integer units, the
\* snapshot of the points map, the silent abort, the loop.
AirCommunity(q, loc) ==
    LET users == SelectSeq(userPointsMap, LAMBDA u : u.points > 0)
        loc2 == [loc EXCEPT
                   !.communityAmountInt = ToUnits(loc.communityAmount),
                   !.userPoints = users,
                   !.allSignatures =
                      IF loc.kothTxSignature # 0
                      THEN <<[prefix |-> "KOTH", sig |-> loc.kothTxSignature]>>
                      ELSE <<>>,
                   !.next = 1]
    IN  IF totalPoints = 0 \/ users = <<>>
        THEN AirFinish(q, loc2, "abortPoints")
        ELSE AirCommunityLoop(q, loc2)

\* A distributor that gives up at the first community batch that fails.
AirBatchReturnedAborts(q, loc, sig) ==
    IF loc.phase = "koth"
    THEN AirCommunity(q,
           IF sig # 0
           THEN [loc EXCEPT !.kothTxSignature = sig, !.sending = <<>>]
           ELSE [loc EXCEPT !.communityAmount = @ + loc.kothAmount,
                            !.kothAmount = 0, !.sending = <<>>])
    ELSE IF sig = 0
    THEN AirFinish(q, [loc EXCEPT !.failedBatches = @ + 1, !.sending = <<>>],
                   "error")
    ELSE LET loc2 == [loc EXCEPT
                        !.allSignatures = Append(@, [prefix |-> "", sig |-> sig]),
                        !.successfulBatches = @ + 1, !.sending = <<>>]
         IN  IF loc.phase = "batch"
             THEN AirCommunityLoop(q, loc2)
             ELSE /\ apc' = [apc EXCEPT ![q] = "log"]
                  /\ aloc' = [aloc EXCEPT ![q] = loc2]
                  /\ isAirdropping' = isAirdropping

\* sendAirdropBatch has returned sig (0 for null) to its caller.
AirBatchReturned(q, loc, sig) ==
    IF loc.phase = "koth"
    THEN AirCommunity(q,
           IF sig # 0
           THEN [loc EXCEPT !.kothTxSignature = sig, !.sending = <<>>]
           ELSE [loc EXCEPT !.communityAmount = @ + loc.kothAmount,
                            !.kothAmount = 0, !.sending = <<>>])
    ELSE LET loc2 == IF sig # 0
                     THEN [loc EXCEPT
                             !.allSignatures =
                                Append(@, [prefix |-> "", sig |-> sig]),
                             !.successfulBatches = @ + 1, !.sending = <<>>]
                     ELSE [loc EXCEPT !.failedBatches = @ + 1,
                                      !.sending = <<>>]
         IN  IF loc.phase = "batch"
             THEN AirCommunityLoop(q, loc2)
             ELSE /\ apc' = [apc EXCEPT ![q] = "log"]
                  /\ aloc' = [aloc EXCEPT ![q] = loc2]
                  /\ isAirdropping' = isAirdropping

\* A guard that is never found taken.
AirdropNeverBusy == FALSE

\* if (isAirdropping) return;
AirdropBusy == isAirdropping

\* processAirdrop up to its first await: the guard, the threshold check.
AirStart(q) ==
    IF AirdropBusy
    THEN /\ apc' = [apc EXCEPT ![q] = "done"]
         /\ aloc' = [aloc EXCEPT ![q] = [AirIdle EXCEPT !.outcome = "busy"]]
         /\ isAirdropping' = isAirdropping
    ELSE IF devPumpHoldings <= AIRDROP_THRESHOLD
    THEN AirFinish(q, [AirIdle EXCEPT !.balance = devPumpHoldings],
                   "abortBalance")
    ELSE /\ apc' = [apc EXCEPT ![q] = "final"]
         /\ aloc' = [aloc EXCEPT ![q] = [AirIdle EXCEPT !.balance = devPumpHoldings]]
         /\ isAirdropping' = TRUE

airFrame == <<isBuybackRunning, devPumpHoldings, totalPoints, userPointsMap,
              userExpectedAirdrops, asdfTop50Holders, tokens, token_holders,
              stats, dbTxn, purchaseLog, flyVars, scanVars, envVars, genVars>>

\* processAirdrop called from outside the flywheel cycle (it is exported).
AirInvoke ==
    /\ apc[ExtProc] = "idle"
    /\ airRuns < env.maxAir
    /\ airRuns' = airRuns + 1
    /\ AirStart(ExtProc)
    /\ UNCHANGED <<airFrame, conservationStatus, airdrop_logs>>

\* That invocation's promise has settled.
AirReturn ==
    /\ apc[ExtProc] = "done"
    /\ apc' = [apc EXCEPT ![ExtProc] = "idle"]
    /\ aloc' = [aloc EXCEPT ![ExtProc] = AirIdle]
    /\ UNCHANGED <<isAirdropping, airRuns, airFrame, conservationStatus,
                   airdrop_logs>>

\* FINAL SAFETY CHECK: the native balance arrives (or getBalance throws);
\* the cached cost; next await: db.get of the KOTH token.
AirFinalCheck(q) ==
    /\ apc[q] = "final"
    /\ \E ok \in Outcomes("getBalance"), sol \in env.sol :
         LET cost == CachedCost(conservationStatus)
             dist == TotalDistributable(aloc[q].balance)
             loc == [aloc[q] EXCEPT !.solBalance = sol, !.cachedCost = cost]
         IN  IF ~ok THEN AirFinish(q, aloc[q], "error")
             ELSE IF LessThanRat(sol, cost)
             THEN AirFinish(q, loc, "abortSol")
             ELSE /\ apc' = [apc EXCEPT ![q] = "koth"]
                  /\ aloc' = [aloc EXCEPT ![q] =
                               [loc EXCEPT !.totalDistributable = dist,
                                           !.communityAmount = dist]]
                  /\ isAirdropping' = isAirdropping
    /\ UNCHANGED <<airRuns, airFrame, conservationStatus, airdrop_logs>>

\* The KOTH token arrives (or the query throws); with a KOTH creator the
\* bonus batch is sent first, else the community distribution starts.
AirKoth(q) ==
    /\ apc[q] = "koth"
    /\ \E ok \in Outcomes("koth") :
         LET k == KothToken(tokens)
             dist == aloc[q].totalDistributable
             loc == [aloc[q] EXCEPT !.kothTicker = IF k.ok THEN k.ticker ELSE "None"]
             locK == [loc EXCEPT !.kothAmount = KothPot(dist),
                                 !.communityAmount = CommunityPot(dist),
                                 !.kothUser = k.userPubkey]
         IN  IF ~ok THEN AirFinish(q, aloc[q], "error")
             ELSE IF k.ok /\ k.userPubkey # NoAddr
             THEN AirSendBatch(q, locK,
                               <<[user |-> k.userPubkey,
                                  amount |-> ToUnits(locK.kothAmount)]>>,
                               "koth")
             ELSE AirCommunity(q, loc)
    /\ UNCHANGED <<airRuns, airFrame, conservationStatus, airdrop_logs>>

\* getMultipleAccountsInfo of sendAirdropBatch returns the infos, or throws:
\* retries--, and after the third failure the batch fails without a
\* transaction.  Next await: sendTxWithRetry.
AirLookup(q) ==
    /\ apc[q] = "lookup"
    /\ \/ \E missing \in MissingChoices(Len(aloc[q].sending)) :
            /\ apc' = [apc EXCEPT ![q] = "send"]
            /\ aloc' = [aloc EXCEPT ![q].tx =
                          Instructions(aloc[q].sending, missing, 1),
                                    ![q].missing = missing]
            /\ isAirdropping' = isAirdropping
       \/ /\ FALSE \in Outcomes("getMultipleAccountsInfo")
          /\ IF aloc[q].retries - 1 = 0
             THEN AirBatchReturned(q,
                    [aloc[q] EXCEPT
                       !.retries = 0,
                       !.batchLog = Append(@, [kind |-> aloc[q].phase,
                                               items |-> aloc[q].sending,
                                               submitted |-> FALSE,
                                               ok |-> FALSE])],
                    0)
             ELSE /\ apc' = apc
                  /\ aloc' = [aloc EXCEPT ![q].retries = @ - 1]
                  /\ isAirdropping' = isAirdropping
    /\ UNCHANGED <<airRuns, airFrame, conservationStatus, airdrop_logs>>

\* sendTxWithRetry returns a signature or throws (sendAirdropBatch then
\* returns null).
AirSend(q) ==
    /\ apc[q] = "send"
    /\ \E ok \in Outcomes("sendTx") :
         LET n == Len(aloc[q].batchLog) + 1
             loc == [aloc[q] EXCEPT
                       !.batchLog = Append(@, [kind |-> aloc[q].phase,
                                               items |-> aloc[q].sending,
                                               submitted |-> TRUE,
                                               ok |-> ok]),
                       !.tx = <<>>, !.missing = {}]
         IN  AirBatchReturned(q, loc, IF ok THEN n ELSE 0)
    /\ UNCHANGED <<airRuns, airFrame, conservationStatus, airdrop_logs>>

\* A distributor that leaves the cached status in place after its run.
AirLogKeepsStatus(q) ==
    /\ apc[q] = "log"
    /\ \E ok \in Outcomes("airdrop_logs") :
         IF ok
         THEN /\ airdrop_logs' =
                   Append(airdrop_logs,
                          [amount |-> aloc[q].totalDistributable,
                           recipients |-> Len(aloc[q].userPoints)
                                + (IF aloc[q].kothAmount > 0 THEN 1 ELSE 0),
                           totalPoints |-> totalPoints,
                           signatures |-> aloc[q].allSignatures,
                           success |-> aloc[q].successfulBatches,
                           failed |-> aloc[q].failedBatches,
                           kothWinner |-> aloc[q].kothTicker,
                           kothAmount |-> aloc[q].kothAmount])
              /\ conservationStatus' = conservationStatus
              /\ AirFinish(q, aloc[q], "logged")
         ELSE /\ UNCHANGED <<airdrop_logs, conservationStatus>>
              /\ AirFinish(q, aloc[q], "error")
    /\ UNCHANGED <<airRuns, airFrame>>

\* The INSERT INTO airdrop_logs is done: the cached status is cleared; or it
\* throws.  The guard is released either way.
AirLog(q) ==
    /\ apc[q] = "log"
    /\ \E ok \in Outcomes("airdrop_logs") :
         IF ok
         THEN /\ airdrop_logs' =
                   Append(airdrop_logs,
                          [amount |-> aloc[q].totalDistributable,
                           recipients |-> Len(aloc[q].userPoints)
                                + (IF aloc[q].kothAmount > 0 THEN 1 ELSE 0),
                           totalPoints |-> totalPoints,
                           signatures |-> aloc[q].allSignatures,
                           success |-> aloc[q].successfulBatches,
                           failed |-> aloc[q].failedBatches,
                           kothWinner |-> aloc[q].kothTicker,
                           kothAmount |-> aloc[q].kothAmount])
              /\ conservationStatus' = NoStatus
              /\ AirFinish(q, aloc[q], "logged")
         ELSE /\ UNCHANGED <<airdrop_logs, conservationStatus>>
              /\ AirFinish(q, aloc[q], "error")
    /\ UNCHANGED <<airRuns, airFrame>>


\* ------------------------------------------------------ flywheel cycle
\* Pending fees a vault read may show; -1: the read throws.
BcChoices == {-1, 2500}
AmmChoices == {0}

\* The locals of one invocation.  txs, airdropCalled and absentAtas are not
\* in the code: the transactions the cycle has handed to submission, whether
\* it has reached its call of processAirdrop, and how many of the accounts
\* it has looked up so far do not exist on the ledger.
FlyIdle == [status |-> "SKIPPED", reason |-> "Unknown", feesCollected |-> 0,
            solSpent |-> 0, tokensBought |-> 0, transfer9_5 |-> 0,
            transfer0_5 |-> 0, pumpBuySig |-> 0,
            claimedAmount |-> 0, realBalance |-> 0, pumpBalance |-> 0,
            eligibleUsers |-> <<>>, missingAtaCount |-> 0, i |-> 0,
            estimatedAirdropCost |-> -1, spendable |-> 0, solBuyAmount |-> 0,
            txs |-> <<>>, airdropCalled |-> FALSE, absentAtas |-> 0]

\* The logData object handed to logPurchase.
LogData(loc) == [status |-> loc.status, reason |-> loc.reason,
                 feesCollected |-> loc.feesCollected, solSpent |-> loc.solSpent,
                 tokensBought |-> loc.tokensBought,
                 transfer9_5 |-> loc.transfer9_5, transfer0_5 |-> loc.transfer0_5,
                 pumpBuySig |-> loc.pumpBuySig]

\* logPurchase('FLYWHEEL_CYCLE', logData), when it settles: the entry is added
\* at the end of the cycle log.
LogPurchase(log, data) == Append(log, data)

\* The cycle goes on to its next await.
FlyTo(p, loc, pc) ==
    /\ fpc' = [fpc EXCEPT ![p] = pc]
    /\ floc' = [floc EXCEPT ![p] = loc]
    /\ UNCHANGED <<apc, aloc, isAirdropping>>

\* await processAirdrop(deps): the distributor runs to its first await.
FlyCallAirdrop(p, loc) ==
    /\ fpc' = [fpc EXCEPT ![p] = "airdrop"]
    /\ floc' = [floc EXCEPT ![p] = [loc EXCEPT !.airdropCalled = TRUE]]
    /\ AirStart(p)

\* A catch block that logs the entry as the try block left it.
FlyCriticalKeepsStatus(p, loc) == FlyTo(p, loc, "logErr")

\* catch (e): the status of the cycle becomes CRITICAL_ERROR; next await:
\* logPurchase.
FlyCritical(p, loc) ==
    FlyTo(p, [loc EXCEPT !.status = "CRITICAL_ERROR", !.reason = "error"],
          "logErr")

\* A buyback that spends all it has claimed.
FlyBuybackSpendsClaimed(p, loc) ==
    IF loc.realBalance < SAFETY_BUFFER
    THEN FlyCallAirdrop(p, [loc EXCEPT !.reason = "LOW BALANCE",
                                       !.status = "LOW_BALANCE_SKIP"])
    ELSE IF loc.claimedAmount > 0
    THEN LET spendable == loc.claimedAmount
             transfer9_5 == (spendable * 45) \div 1000
             transfer0_5 == (spendable * 5) \div 1000
             solBuyAmount == (spendable * 95) \div 100
         IN  IF spendable > MIN_SPEND
             THEN FlyTo(p, [loc EXCEPT
                              !.spendable = spendable,
                              !.solBuyAmount = solBuyAmount,
                              !.solSpent = solBuyAmount + transfer9_5 + transfer0_5,
                              !.transfer9_5 = transfer9_5,
                              !.transfer0_5 = transfer0_5],
                        "feeTx")
             ELSE FlyCallAirdrop(p, [loc EXCEPT !.spendable = spendable,
                                                !.status = "LOW_SPEND_SKIP"])
    ELSE FlyCallAirdrop(p, loc)

\* The buyback section, reached with proceedWithBuyback = true.
FlyBuyback(p, loc) ==
    IF loc.realBalance < SAFETY_BUFFER
    THEN FlyCallAirdrop(p, [loc EXCEPT !.reason = "LOW BALANCE",
                                       !.status = "LOW_BALANCE_SKIP"])
    ELSE IF loc.claimedAmount > 0
    THEN LET spendable == Min(loc.claimedAmount, loc.realBalance - SAFETY_BUFFER)
             transfer9_5 == (spendable * 45) \div 1000
             transfer0_5 == (spendable * 5) \div 1000
             solBuyAmount == (spendable * 95) \div 100
         IN  IF spendable > MIN_SPEND
             THEN FlyTo(p, [loc EXCEPT
                              !.spendable = spendable,
                              !.solBuyAmount = solBuyAmount,
                              !.solSpent = solBuyAmount + transfer9_5 + transfer0_5,
                              !.transfer9_5 = transfer9_5,
                              !.transfer0_5 = transfer0_5],
                        "feeTx")
             ELSE FlyCallAirdrop(p, [loc EXCEPT !.spendable = spendable,
                                                !.status = "LOW_SPEND_SKIP"])
    ELSE FlyCallAirdrop(p, loc)

\* A decision that goes on to the buyback when the balance covers the
\* estimate.
FlyDecideBuysWhenReady(p, loc) ==
    LET est == loc.missingAtaCount * ATA_RENT_COST + SAFETY_BUFFER
        conserving == loc.realBalance < est
        loc2 == [loc EXCEPT !.estimatedAirdropCost = est]
    IN  /\ conservationStatus' =
             [present |-> TRUE,
              eligibleCount |-> Len(loc.eligibleUsers),
              missingAtas |-> loc.missingAtaCount,
              estimatedCost |-> Rat(est, LAMPORTS_PER_SOL),
              currentSol |-> Rat(loc.realBalance, LAMPORTS_PER_SOL),
              pumpBalance |-> loc.pumpBalance,
              isConserving |-> conserving]
        /\ IF conserving
           THEN FlyCallAirdrop(p, [loc2 EXCEPT !.status = "CONSERVING_SOL",
                                               !.reason = "Saving for Airdrop"])
           ELSE FlyBuyback(p, [loc2 EXCEPT !.reason = "Ready for Airdrop"])

\* The estimate, the status stored in the shared state, the decision; the
\* buyback is skipped either way and the distributor is called.
FlyDecide(p, loc) ==
    LET est == loc.missingAtaCount * ATA_RENT_COST + SAFETY_BUFFER
        conserving == loc.realBalance < est
        loc2 == [loc EXCEPT !.estimatedAirdropCost = est]
    IN  /\ conservationStatus' =
             [present |-> TRUE,
              eligibleCount |-> Len(loc.eligibleUsers),
              missingAtas |-> loc.missingAtaCount,
              estimatedCost |-> Rat(est, LAMPORTS_PER_SOL),
              currentSol |-> Rat(loc.realBalance, LAMPORTS_PER_SOL),
              pumpBalance |-> loc.pumpBalance,
              isConserving |-> conserving]
        /\ IF conserving
           THEN FlyCallAirdrop(p, [loc2 EXCEPT !.status = "CONSERVING_SOL",
                                               !.reason = "Saving for Airdrop"])
           ELSE FlyCallAirdrop(p, [loc2 EXCEPT !.reason = "Ready for Airdrop"])

flyFrame == <<devPumpHoldings, totalPoints, userPointsMap,
              userExpectedAirdrops, asdfTop50Holders, tokens, token_holders,
              airdrop_logs, dbTxn, airRuns, scanVars, envVars, genVars>>

\* The invocation record a new call of runPurchaseAndFees gets: the first
\* one not in use.
FreeSlot ==
    IF fpc["f1"] = "idle" THEN "f1"
    ELSE IF fpc["f2"] = "idle" THEN "f2" ELSE NoAddr

\* if (isBuybackRunning) return;
BuybackBusy == isBuybackRunning

\* The timer fires runPurchaseAndFees: a no-op while a cycle is running,
\* else the guard is taken and the cycle runs to its first await (the reads
\* of the two fee vaults).
FlyInvoke(p) ==
    /\ p = FreeSlot
    /\ flyRuns < env.maxFly
    /\ flyRuns' = flyRuns + 1
    /\ IF BuybackBusy
       THEN UNCHANGED <<isBuybackRunning, fpc, floc>>
       ELSE /\ isBuybackRunning' = TRUE
            /\ fpc' = [fpc EXCEPT ![p] = "fees"]
            /\ floc' = [floc EXCEPT ![p] = FlyIdle]
    /\ UNCHANGED <<apc, aloc, isAirdropping, conservationStatus, stats,
                   purchaseLog, flyFrame>>

\* A cycle that calls the distributor as soon as the vault reads are done.
FlyFeesAirdropFirst(p) ==
    /\ fpc[p] = "fees"
    /\ FlyCallAirdrop(p, floc[p])
    /\ UNCHANGED <<isBuybackRunning, flyRuns, conservationStatus, stats,
                   purchaseLog, flyFrame>>

\* Both vault reads are done (each may throw and is then skipped); the
\* claim is awaited when the pending fees meet the threshold, else the
\* balance read.
FlyFees(p) ==
    /\ fpc[p] = "fees"
    /\ \E bc \in BcChoices, amm \in AmmChoices :
         LET total == (IF bc > 0 THEN bc ELSE 0) + (IF amm > 0 THEN amm ELSE 0)
             loc == [floc[p] EXCEPT !.feesCollected = total]
         IN  IF total >= FEE_THRESHOLD
             THEN FlyTo(p, loc, "claim")
             ELSE FlyTo(p, [loc EXCEPT !.reason = "Threshold not met"], "balance")
    /\ UNCHANGED <<isBuybackRunning, flyRuns, conservationStatus, stats,
                   purchaseLog, flyFrame>>

\* claimCreatorFees returns what it claimed (its own reads of the vaults,
\* its claim transaction), or its transaction throws.
FlyClaim(p) ==
    /\ fpc[p] = "claim"
    /\ \E bc \in BcChoices, amm \in AmmChoices, sent \in Outcomes("sendTx") :
         LET totalClaimed == (IF bc > 0 THEN bc ELSE 0) + (IF amm > 0 THEN amm ELSE 0)
             claimedSomething == totalClaimed > 0
             loc == [floc[p] EXCEPT
                       !.txs = IF claimedSomething
                               THEN Append(@, [kind |-> "claim", ok |-> sent])
                               ELSE @]
         IN  IF claimedSomething /\ ~sent THEN FlyCritical(p, loc)
             ELSE IF claimedSomething
             THEN FlyTo(p, [loc EXCEPT !.claimedAmount = totalClaimed], "claimStat")
             ELSE FlyTo(p, loc, "balance")
    /\ UNCHANGED <<isBuybackRunning, flyRuns, conservationStatus, stats,
                   purchaseLog, flyFrame>>

\* The lifetime counter is updated and the claim recorded (or one of the
\* two throws); after the 2 s delay the balance is read.
FlyClaimStat(p) ==
    /\ fpc[p] = "claimStat"
    /\ \E ok \in Outcomes("stats") :
         IF ok
         THEN /\ stats' = [stats EXCEPT !.lifetimeCreatorFeesLamports =
                                           @ + floc[p].claimedAmount]
              /\ FlyTo(p, floc[p], "balance")
         ELSE /\ stats' = stats
              /\ FlyCritical(p, floc[p])
    /\ UNCHANGED <<isBuybackRunning, flyRuns, conservationStatus, purchaseLog,
                   flyFrame>>

\* The native balance arrives (or getBalance throws).  CONSERVATION LOGIC:
\* above the threshold the accounts of the eligible users are looked up
\* (next await), or with no eligible user the decision is taken at once;
\* at or below it the status is cleared and the buyback section runs.
FlyBalance(p) ==
    /\ fpc[p] = "balance"
    /\ \E ok \in Outcomes("getBalance"), sol \in env.sol :
         LET eligible == [i \in 1..Len(userPointsMap) |-> userPointsMap[i].pubkey]
             loc == [floc[p] EXCEPT !.realBalance = sol,
                                    !.pumpBalance = devPumpHoldings]
         IN  IF ~ok
             THEN /\ FlyCritical(p, floc[p])
                  /\ UNCHANGED conservationStatus
             ELSE IF devPumpHoldings > AIRDROP_THRESHOLD
             THEN IF Len(eligible) > 0
                  THEN /\ FlyTo(p, [loc EXCEPT !.eligibleUsers = eligible], "atas")
                       /\ UNCHANGED conservationStatus
                  ELSE FlyDecide(p, loc)
             ELSE /\ conservationStatus' = NoStatus
                  /\ FlyBuyback(p, loc)
    /\ UNCHANGED <<isBuybackRunning, flyRuns, stats, purchaseLog, flyFrame>>

\* A lookup loop that leaves a group whose lookup failed out of the count.
FlyAtasSkipsFailedGroup(p) ==
    /\ fpc[p] = "atas"
    /\ LET batch == SubSeq(floc[p].eligibleUsers, floc[p].i + 1,
                           Min(floc[p].i + ATA_CHECK_BATCH,
                               Len(floc[p].eligibleUsers)))
       IN  \E missing \in MissingChoices(Len(batch)),
              ok \in Outcomes("getMultipleAccountsInfo") :
             LET loc == [floc[p] EXCEPT
                           !.missingAtaCount =
                              @ + (IF ok THEN Cardinality(missing) ELSE 0),
                           !.absentAtas = @ + Cardinality(missing),
                           !.i = @ + ATA_CHECK_BATCH]
             IN  IF loc.i < Len(loc.eligibleUsers)
                 THEN /\ FlyTo(p, loc, "atas")
                      /\ UNCHANGED conservationStatus
                 ELSE FlyDecide(p, loc)
    /\ UNCHANGED <<isBuybackRunning, flyRuns, stats, purchaseLog, flyFrame>>

\* getMultipleAccountsInfo of one group of up to 100 eligible users returns:
\* the accounts that do not exist are counted; or it throws: the whole group
\* counts as missing.  After the last group the decision is taken.
FlyAtas(p) ==
    /\ fpc[p] = "atas"
    /\ LET batch == SubSeq(floc[p].eligibleUsers, floc[p].i + 1,
                           Min(floc[p].i + ATA_CHECK_BATCH,
                               Len(floc[p].eligibleUsers)))
       IN  \E missing \in MissingChoices(Len(batch)),
              ok \in Outcomes("getMultipleAccountsInfo") :
             LET loc == [floc[p] EXCEPT
                           !.missingAtaCount =
                              @ + (IF ok THEN Cardinality(missing) ELSE Len(batch)),
                           !.absentAtas = @ + Cardinality(missing),
                           !.i = @ + ATA_CHECK_BATCH]
             IN  IF loc.i < Len(loc.eligibleUsers)
                 THEN /\ FlyTo(p, loc, "atas")
                      /\ UNCHANGED conservationStatus
                 ELSE FlyDecide(p, loc)
    /\ UNCHANGED <<isBuybackRunning, flyRuns, stats, purchaseLog, flyFrame>>

\* The fee-split transaction is sent (or throws); next await: the swap.
FlyFeeTx(p) ==
    /\ fpc[p] = "feeTx"
    /\ \E ok \in Outcomes("sendTx") :
         LET loc == [floc[p] EXCEPT !.txs = Append(@, [kind |-> "fee", ok |-> ok])]
         IN  IF ok THEN FlyTo(p, loc, "swap") ELSE FlyCritical(p, loc)
    /\ UNCHANGED <<isBuybackRunning, flyRuns, conservationStatus, stats,
                   purchaseLog, flyFrame>>

\* swapSolToToken returns a result or null (it catches its own errors).
FlySwap(p) ==
    /\ fpc[p] = "swap"
    /\ \E ok \in Outcomes("swap") :
         LET loc == [floc[p] EXCEPT !.txs = Append(@, [kind |-> "swap", ok |-> ok])]
         IN  IF ok
             THEN FlyTo(p, [loc EXCEPT !.pumpBuySig = 1, !.tokensBought = 1,
                                       !.status = "SUCCESS",
                                       !.reason = "Flywheel Complete"],
                        "buyStat")
             ELSE FlyCallAirdrop(p, [loc EXCEPT !.status = "BUY_FAIL"])
    /\ UNCHANGED <<isBuybackRunning, flyRuns, conservationStatus, stats,
                   purchaseLog, flyFrame>>

\* The two UPDATEs of the buyback counters are done (or one throws).
FlyBuyStat(p) ==
    /\ fpc[p] = "buyStat"
    /\ \E ok \in Outcomes("stats") :
         IF ok
         THEN /\ stats' = [stats EXCEPT !.totalPumpBoughtLamports =
                                           @ + floc[p].solBuyAmount]
              /\ FlyCallAirdrop(p, floc[p])
         ELSE /\ stats' = stats
              /\ FlyCritical(p, floc[p])
    /\ UNCHANGED <<isBuybackRunning, flyRuns, conservationStatus, purchaseLog,
                   flyFrame>>

\* processAirdrop has returned (its locals are gone); next await:
\* logPurchase.
FlyAfterAirdrop(p) ==
    /\ fpc[p] = "airdrop"
    /\ apc[p] = "done"
    /\ fpc' = [fpc EXCEPT ![p] = "log"]
    /\ apc' = [apc EXCEPT ![p] = "idle"]
    /\ aloc' = [aloc EXCEPT ![p] = AirIdle]
    /\ UNCHANGED <<floc, isAirdropping>>
    /\ UNCHANGED <<isBuybackRunning, flyRuns, conservationStatus, stats,
                   purchaseLog, flyFrame>>

\* logPurchase of the try block is done: finally releases the guard; or it
\* throws into the catch, which logs again.
FlyLog(p) ==
    /\ fpc[p] = "log"
    /\ \E ok \in Outcomes("logPurchase") :
         IF ok
         THEN /\ purchaseLog' = LogPurchase(purchaseLog, LogData(floc[p]))
              /\ isBuybackRunning' = FALSE
              /\ FlyTo(p, floc[p], "next")
         ELSE /\ UNCHANGED <<purchaseLog, isBuybackRunning>>
              /\ FlyCritical(p, floc[p])
    /\ UNCHANGED <<flyRuns, conservationStatus, stats, flyFrame>>

\* logPurchase of the catch block is done (or throws); finally releases the
\* guard; next await: updateNextCheckTime.
FlyLogErr(p) ==
    /\ fpc[p] = "logErr"
    /\ \E ok \in Outcomes("logPurchase") :
         purchaseLog' = IF ok THEN LogPurchase(purchaseLog, LogData(floc[p]))
                        ELSE purchaseLog
    /\ isBuybackRunning' = FALSE
    /\ FlyTo(p, floc[p], "next")
    /\ UNCHANGED <<flyRuns, conservationStatus, stats, flyFrame>>

\* updateNextCheckTime settles: the invocation is over.
FlyNext(p) ==
    /\ fpc[p] = "next"
    /\ fpc' = [fpc EXCEPT ![p] = "idle"]
    /\ floc' = [floc EXCEPT ![p] = FlyIdle]
    /\ UNCHANGED <<apc, aloc, isBuybackRunning, isAirdropping, flyRuns,
                   conservationStatus, stats, purchaseLog, flyFrame>>


\* ------------------------------------------------------ multiplier sync
\* The loop that fills top100: the owners of the largest non-zero accounts.
RECURSIVE TopAsdf(_, _)
TopAsdf(parsed, acc) ==
    IF parsed = <<>> \/ Len(acc) >= ASDF_TOP_HOLDERS THEN acc
    ELSE IF Head(parsed).amount > 0
         THEN TopAsdf(Tail(parsed), Append(acc, Head(parsed).owner))
         ELSE TopAsdf(Tail(parsed), acc)

AsdfHolders(accounts) ==
    LET parsed == [i \in 1..Len(accounts) |->
                     [owner |-> accounts[i].owner,
                      amount |-> DecodeLE(accounts[i].amountBytes)]]
    IN  Range(TopAsdf(SortDesc(parsed), <<>>))

\* The loyalty-token accounts a fetch may return.
AsdfPool == {<<>>,
             <<Buffer(TOKEN_ACCOUNT_SIZE, "u2", 0),
               Buffer(TOKEN_ACCOUNT_SIZE, "u1", 7)>>,
             <<Buffer(TOKEN_ACCOUNT_SIZE, "u3", 1),
               Buffer(TOKEN_ACCOUNT_SIZE, "u2", 5)>>}

\* A variant that adds the owners found to the set it has.
AsdfSyncAdds ==
    /\ \E ok \in Outcomes("getProgramAccounts"), accounts \in AsdfPool :
         asdfTop50Holders' =
           IF ok THEN asdfTop50Holders \cup AsdfHolders(accounts)
           ELSE asdfTop50Holders
    /\ UNCHANGED <<isBuybackRunning, isAirdropping, devPumpHoldings, totalPoints,
                   userPointsMap, userExpectedAirdrops, conservationStatus,
                   dbVars, purchaseLog, flyVars, airVars, scanVars, envVars,
                   genVars>>

\* updateAsdfHolders: the fetch returns and the membership set is replaced;
\* or the fetch throws and the set is left as it is.
AsdfSync ==
    /\ \E ok \in Outcomes("getProgramAccounts"), accounts \in AsdfPool :
         asdfTop50Holders' = IF ok THEN AsdfHolders(accounts) ELSE asdfTop50Holders
    /\ UNCHANGED <<isBuybackRunning, isAirdropping, devPumpHoldings, totalPoints,
                   userPointsMap, userExpectedAirdrops, conservationStatus,
                   dbVars, purchaseLog, flyVars, airVars, scanVars, envVars,
                   genVars>>

\* ------------------------------------------------- initial states, specs
Token(mint, creator, marketCap, ticker) ==
    [mint |-> mint, userPubkey |-> creator, marketCap |-> marketCap,
     ticker |-> ticker]

Holder(owner) == Buffer(TOKEN_ACCOUNT_SIZE, owner, DUST_THRESHOLD + 1)

\* The rows a complete replace of one mint stores for a fetch result.
StoredRows(mint, accounts) ==
    InsertAll(<<>>, mint, HoldersToInsert(accounts, mint), 1)

\* A state of the service: the tokens table, the token accounts of m1 the
\* scanner stored last, the holdings it read last, and whether that cycle
\* ran to its publication.  With published = FALSE the cycle has written the
\* holdings and then ended in its outer catch (or is still scanning), over
\* the state of construction.
World(tokenTable, accounts, holdings, published) ==
    [tokens |-> tokenTable, accounts |-> accounts, holdings |-> holdings,
     published |-> published]

\* An environment.
Env(accounts, sol, faults, maxFly, maxAir, maxScan) ==
    [accounts |-> accounts, sol |-> sol, faults |-> faults, maxFly |-> maxFly,
     maxAir |-> maxAir, maxScan |-> maxScan]

\* Every call that may throw.
AllCalls == {"tokens", "koth", "getProgramAccounts", "BEGIN", "DELETE",
             "INSERT", "COMMIT", "ROLLBACK", "rows", "getBalance",
             "getMultipleAccountsInfo", "sendTx", "airdrop_logs", "stats",
             "swap", "logPurchase"}

InitOf(w, e) ==
    LET rows == IF w.published THEN StoredRows("m1", w.accounts) ELSE <<>>
        dist == TotalDistributable(w.holdings)
        k == KothToken(w.tokens)
        ps == PointsState(rows, TopTokens(w.tokens), {}, CommunityPot(dist),
                          IF k.ok THEN k.userPubkey ELSE NoAddr, KothPot(dist))
    IN  /\ isBuybackRunning = FALSE
        /\ isAirdropping = FALSE
        /\ devPumpHoldings = w.holdings
        /\ totalPoints = IF w.published THEN ps.totalPoints ELSE 0
        /\ userPointsMap = IF w.published THEN ps.userPointsMap ELSE <<>>
        /\ userExpectedAirdrops =
             IF w.published THEN ps.userExpectedAirdrops ELSE <<>>
        /\ conservationStatus = NoStatus
        /\ asdfTop50Holders = {}
        /\ tokens = w.tokens
        /\ token_holders = rows
        /\ airdrop_logs = <<>>
        /\ stats = ZeroStats
        /\ dbTxn = [open |-> FALSE, saved |-> NoSnapshot]
        /\ purchaseLog = <<>>
        /\ fpc = [p \in FlyProcs |-> "idle"]
        /\ floc = [p \in FlyProcs |-> FlyIdle]
        /\ flyRuns = 0
        /\ apc = [q \in AirProcs |-> "idle"]
        /\ aloc = [q \in AirProcs |-> AirIdle]
        /\ airRuns = 0
        /\ spc = [s \in ScanProcsAll |-> "idle"]
        /\ sloc = [s \in ScanProcsAll |-> ScanIdle]
        /\ scanRuns = 0
        /\ env = e
        /\ holdingsGen = 0
        /\ pointsGen = 0

\* The flywheel specification: one timer's worth of runPurchaseAndFees
\* invocations with the distributor each calls, where every call may throw.
\* The scanner is between two cycles (or has failed after writing the
\* holdings) and the accounting state stays as it left it.
FlyWorlds ==
    {World(<<Token("m1", "u1", 10, "T1")>>, <<Holder("u1"), Holder("u2")>>,
           60000, TRUE),
     World(<<Token("m1", DEV, 10, "T1")>>, <<Holder("u1")>>, 60000, TRUE),
     World(<<Token("m1", "u1", 10, "T1")>>, <<>>, 60000, FALSE),
     World(<<Token("m1", "u1", 10, "T1")>>, <<Holder("u1")>>, 0, TRUE)}

\* 400 is 0.04 SOL, 3000 is 0.3 SOL.
Init ==
    \E w \in FlyWorlds :
      InitOf(w, Env({}, {0, 400, 3000}, AllCalls, MaxFlyRuns, 0, 0))

FlyStep(p) ==
    \/ FlyFees(p) \/ FlyClaim(p) \/ FlyClaimStat(p) \/ FlyBalance(p)
    \/ FlyAtas(p) \/ FlyFeeTx(p) \/ FlySwap(p) \/ FlyBuyStat(p)
    \/ FlyAfterAirdrop(p) \/ FlyLog(p) \/ FlyLogErr(p) \/ FlyNext(p)

AirStep(q) ==
    \/ AirFinalCheck(q) \/ AirKoth(q) \/ AirLookup(q) \/ AirSend(q)
    \/ AirLog(q)

Next ==
    \/ \E p \in FlyProcs : FlyInvoke(p)
    \/ \E p \in FlyProcs : FlyFees(p)
    \/ \E p \in FlyProcs : FlyClaim(p)
    \/ \E p \in FlyProcs : FlyClaimStat(p)
    \/ \E p \in FlyProcs : FlyBalance(p)
    \/ \E p \in FlyProcs : FlyAtas(p)
    \/ \E p \in FlyProcs : FlyFeeTx(p)
    \/ \E p \in FlyProcs : FlySwap(p)
    \/ \E p \in FlyProcs : FlyBuyStat(p)
    \/ \E p \in FlyProcs : FlyAfterAirdrop(p)
    \/ \E p \in FlyProcs : FlyLog(p)
    \/ \E p \in FlyProcs : FlyLogErr(p)
    \/ \E p \in FlyProcs : FlyNext(p)
    \/ \E q \in FlyProcs : AirFinalCheck(q)
    \/ \E q \in FlyProcs : AirKoth(q)
    \/ \E q \in FlyProcs : AirLookup(q)
    \/ \E q \in FlyProcs : AirSend(q)
    \/ \E q \in FlyProcs : AirLog(q)

Spec == Init /\ [][Next]_vars

\* Every awaited call settles: an invocation that can take its next step
\* takes it.
FairWorlds ==
    {World(<<Token("m1", DEV, 10, "T1")>>, <<Holder("u1")>>, 60000, TRUE),
     World(<<Token("m1", "u1", 10, "T1")>>, <<Holder("u1")>>, 0, TRUE)}

InitFair ==
    \E w \in FairWorlds :
      InitOf(w, Env({}, {0, 3000}, AllCalls, MaxFairRuns, 0, 0))

FairSpec ==
    /\ InitFair
    /\ [][Next]_vars
    /\ \A p \in FlyProcs : WF_vars(FlyStep(p))
    /\ \A q \in FlyProcs : WF_vars(AirStep(q))

\* The guard specification: the timer fires runPurchaseAndFees while earlier
\* invocations may still be running, and the exported processAirdrop is
\* called from outside the cycle as well.
GuardWorlds ==
    {World(<<Token("m1", DEV, 10, "T1")>>, <<Holder("u1")>>, 60000, TRUE),
     World(<<Token("m1", "u1", 10, "T1")>>, <<Holder("u1")>>, 0, TRUE)}

InitGuard ==
    \E w \in GuardWorlds :
      InitOf(w, Env({}, {3000}, {"stats"}, MaxGuardFlyRuns, MaxAirRuns, 0))

NextGuard ==
    \/ \E p \in FlyProcs : FlyInvoke(p)
    \/ \E p \in FlyProcs : FlyStep(p)
    \/ AirInvoke
    \/ AirReturn
    \/ \E q \in AirProcs : AirStep(q)

SpecGuard == InitGuard /\ [][NextGuard]_vars

\* The distribution specification: one call of processAirdrop over nine
\* scored holders, while a scanner cycle finds a single holder left.
NineHolders == <<Holder("u1"), Holder("u2"), Holder("u3"), Holder("u4"),
                 Holder("u5"), Holder("u6"), Holder("u7"), Holder("u8"),
                 Holder("u9")>>

InitDist ==
    InitOf(World(<<Token("m1", "u1", 10, "T1")>>, NineHolders, 60000, TRUE),
           Env({<<Holder("u1")>>}, {400, 3000},
               {"sendTx", "INSERT", "getProgramAccounts"},
               0, MaxAirRuns, MaxDistScans))

ScanStep(s) ==
    \/ ScanInvoke(s) \/ ScanTokens(s) \/ ScanHoldings(s) \/ ScanKoth(s)
    \/ ScanFetch(s) \/ ScanBegin(s) \/ ScanDelete(s) \/ ScanInsert(s)
    \/ ScanCommit(s) \/ ScanRollback(s) \/ ScanRows(s)

NextDist ==
    \/ AirInvoke
    \/ AirReturn
    \/ AirStep(ExtProc)
    \/ ScanStep("s1")

SpecDist == InitDist /\ [][NextDist]_vars

\* The scanner specification: the state of construction, two overlapping
\* invocations of updateGlobalState (the interval and the start-up timeout
\* have no guard), the multiplier sync.  One tracked token has a mint; the
\* other has none and is skipped by the loop.  The fetches show a short
\* buffer, a dust account, the liquidity vault and the escrow account.
ScanTokenTable == <<Token(NoAddr, "u2", 20, "T2"), Token("m1", "u1", 10, "T1")>>

ScanLedgerPool ==
    {<<Holder("u1"), Holder("u2")>>,
     <<Buffer(ACCOUNT_LAYOUT_LEN - 1, "u3", DUST_THRESHOLD + 5),
       Buffer(TOKEN_ACCOUNT_SIZE, "u2", DUST_THRESHOLD),
       Buffer(TOKEN_ACCOUNT_SIZE, PUMP_LIQUIDITY, DUST_THRESHOLD + 9),
       Buffer(TOKEN_ACCOUNT_SIZE, "u3", DUST_THRESHOLD + 1),
       Buffer(TOKEN_ACCOUNT_SIZE, "bc1", DUST_THRESHOLD + 7)>>}

InitScan ==
    InitOf(World(ScanTokenTable, <<>>, 0, FALSE),
           Env(ScanLedgerPool, {}, AllCalls, 0, 0, MaxScanRuns))

NextScan ==
    \/ \E s \in ScanProcsAll : ScanInvoke(s)
    \/ \E s \in ScanProcsAll : ScanTokens(s)
    \/ \E s \in ScanProcsAll : ScanHoldings(s)
    \/ \E s \in ScanProcsAll : ScanKoth(s)
    \/ \E s \in ScanProcsAll : ScanFetch(s)
    \/ \E s \in ScanProcsAll : ScanBegin(s)
    \/ \E s \in ScanProcsAll : ScanDelete(s)
    \/ \E s \in ScanProcsAll : ScanInsert(s)
    \/ \E s \in ScanProcsAll : ScanCommit(s)
    \/ \E s \in ScanProcsAll : ScanRollback(s)
    \/ \E s \in ScanProcsAll : ScanRows(s)
    \/ AsdfSync

SpecScan == InitScan /\ [][NextScan]_vars

\* The points specification: recompute cycles, one after the other, over two
\* tracked tokens, one of them created by the treasury, which also
\* holds one of them; the multiplier sync changes the multiplier set between
\* and during the cycles; the fetch, an INSERT and the grouped query may
\* throw, and so may the queries for the tracked tokens and the bonus token.
PointsTokenTable == <<Token("m1", "u1", 10, "T1"), Token("m2", DEV, 5, "T2")>>

PointsLedgerPool == {<<Holder("u1"), Holder("u2")>>, <<Holder(DEV)>>}

InitPoints ==
    InitOf(World(PointsTokenTable, <<>>, 0, FALSE),
           Env(PointsLedgerPool, {},
               {"tokens", "koth", "getProgramAccounts", "INSERT", "rows"},
               0, 0, MaxPointsScans))

NextPoints ==
    \/ ScanStep("s1")
    \/ AsdfSync

SpecPoints == InitPoints /\ [][NextPoints]_vars

\* The batch specification: calls of processAirdrop over seventeen scored
\* holders (three community batches after the bonus), where an account
\* lookup, a submission and the write of the audit log may throw.
SeventeenHolders ==
    NineHolders \o <<Holder("v10"), Holder("v11"), Holder("v12"), Holder("v13"),
                     Holder("v14"), Holder("v15"), Holder("v16"), Holder("v17")>>

InitAir ==
    InitOf(World(<<Token("m1", "u1", 10, "T1")>>, SeventeenHolders, 60000, TRUE),
           Env({}, {3000}, {"getMultipleAccountsInfo", "sendTx", "airdrop_logs"},
               0, MaxAirRuns, 0))

NextAir ==
    \/ AirInvoke
    \/ AirReturn
    \/ AirStep(ExtProc)

SpecAir == InitAir /\ [][NextAir]_vars

\* The cache specification: flywheel cycles, calls of processAirdrop from
\* outside them and scanner cycles, in any interleaving.  The one tracked
\* token has no mint: the scanner's loop skips it and goes from the KOTH
\* query to the grouped query, and its creator scores as a creator.  No
\* scanner cycle has published yet: the maps are empty until one does.  The
\* scanner may find the holdings gone after a cycle has cached its estimate;
\* a stats update may throw.
InitCache ==
    InitOf(World(<<Token(NoAddr, "u1", 10, "T1")>>, <<>>, 60000, FALSE),
           Env({}, {0, 3000}, {"stats"},
               MaxCacheRuns, MaxCacheRuns, MaxCacheRuns))

NextCache ==
    \/ \E p \in FlyProcs : FlyInvoke(p)
    \/ \E p \in FlyProcs : FlyStep(p)
    \/ AirInvoke
    \/ AirReturn
    \/ \E q \in AirProcs : AirStep(q)
    \/ ScanInvoke("s1")
    \/ ScanTokens("s1")
    \/ ScanHoldings("s1")
    \/ ScanKoth("s1")
    \/ ScanRows("s1")

SpecCache == InitCache /\ [][NextCache]_vars

\* The cycle log specification: flywheel cycles with the distributor each
\* calls, over holdings above and below the distribution threshold and
\* native balances of 0.04, 0.06, 0.2, 0.3 and 0.6 SOL (the claimable fees
\* are 0.25 SOL); the claim transaction, a stats
\* update, the swap and the account lookups may fail.  The write of the cycle log succeeds.
LogWorlds ==
    {World(<<Token("m1", "u1", 10, "T1")>>, <<Holder("u1"), Holder("u2")>>,
           60000, TRUE),
     World(<<Token("m1", "u1", 10, "T1")>>, <<Holder("u1")>>, 0, TRUE)}

InitLog ==
    \E w \in LogWorlds :
      InitOf(w, Env({}, {400, 600, 2000, 3000, 6000},
                    {"sendTx", "stats", "swap", "getMultipleAccountsInfo"},
                    MaxLogRuns, 0, 0))

SpecLog == InitLog /\ [][Next]_vars

\* The pot specification: calls of processAirdrop over nine scored holders,
\* where the token of the largest market capitalization has a registered
\* creator or has none.
PotWorlds ==
    {World(<<Token("m1", "u1", 10, "T1")>>, NineHolders, 60000, TRUE),
     World(<<Token("m1", NoAddr, 10, "T1")>>, NineHolders, 60000, TRUE)}

InitPots ==
    \E w \in PotWorlds :
      InitOf(w, Env({}, {3000},
                    {"getMultipleAccountsInfo", "sendTx", "airdrop_logs"},
                    0, MaxAirRuns, 0))

SpecPots == InitPots /\ [][NextAir]_vars

\* The reward specification: recompute cycles, one after the other, and the
\* multiplier sync, over a tokens table of eleven tokens in descending order
\* of volume.  The first is tracked with mint m2; the next nine have no mint
\* yet; the eleventh, mint m1, is outside the ten tracked tokens, has the
\* largest market capitalization and rows of an earlier scan in
\* token_holders.  Its creator is an address without points, an address
\* with points, the treasury, or is not registered.
RewardTokenTable(kothCreator) ==
    <<Token("m2", "u1", 5, "T1"), Token(NoAddr, DEV, 1, "T2")>>
    \o [i \in 1..8 |-> Token(NoAddr, NoAddr, 1, "T0")]
    \o <<Token("m1", kothCreator, 10, "T11")>>

RewardLedgerPool == {<<Holder("u1"), Holder("u2")>>, <<Holder("u3"), Holder(DEV)>>}

InitReward ==
    \E kothCreator \in {"u3", "u1", DEV, NoAddr} :
      InitOf(World(RewardTokenTable(kothCreator), <<Holder("u2"), Holder("u3")>>,
                   60000, TRUE),
             Env(RewardLedgerPool, {}, {"getProgramAccounts", "INSERT"},
                 0, 0, MaxPointsScans))

SpecReward == InitReward /\ [][NextPoints]_vars

\* The snapshot specification: scanner cycles, one after the other, over two
\* tracked mints, where every step of the scan and of the replace of a mint
\* may throw.  The ledger does not change between the cycles: every fetch of
\* a behaviour returns the same accounts in the same order.  The fetches show an owner with two token accounts of the
\* mint, accounts of equal balance, a short buffer, an account at the dust
\* threshold and one above it, the liquidity vault and the escrow account
\* of m1.
SnapLedgerPool ==
    {<<Holder("u1"), Holder("u1"), Holder("u2")>>,
     <<Buffer(ACCOUNT_LAYOUT_LEN - 1, "u3", DUST_THRESHOLD + 5),
       Buffer(TOKEN_ACCOUNT_SIZE, "u2", DUST_THRESHOLD),
       Buffer(TOKEN_ACCOUNT_SIZE, PUMP_LIQUIDITY, DUST_THRESHOLD + 9),
       Buffer(TOKEN_ACCOUNT_SIZE, "u3", DUST_THRESHOLD + 1),
       Buffer(TOKEN_ACCOUNT_SIZE, "bc1", DUST_THRESHOLD + 7),
       Buffer(TOKEN_ACCOUNT_SIZE, "u4", DUST_THRESHOLD + 1)>>}

\* Three tracked tokens, the second without a mint.
SnapTokenTable ==
    <<Token("m1", "u1", 10, "T1"), Token(NoAddr, "u2", 7, "T3"),
      Token("m2", DEV, 5, "T2")>>

InitSnap ==
    \E accounts \in SnapLedgerPool :
      InitOf(World(SnapTokenTable, <<>>, 0, FALSE),
             Env({accounts}, {},
                 {"getProgramAccounts", "BEGIN", "DELETE", "INSERT", "COMMIT",
                  "ROLLBACK"},
                 0, 0, MaxSnapScans))

SpecSnap == InitSnap /\ [][ScanStep("s1")]_vars

\* The mixed specification: the three timers together.  A flywheel cycle
\* with the distributor it calls, a call of the exported processAirdrop and
\* a scanner cycle interleave at their awaits, over a treasury that held
\* nothing or 60000 tokens at the scanner's last cycle; an INSERT of the
\* scanner and a stats update of the flywheel may throw.
InitMix ==
    \E holdings \in {0, 60000} :
      InitOf(World(<<Token("m1", "u1", 10, "T1")>>, <<Holder("u1")>>,
                   holdings, TRUE),
             Env({<<Holder("u1")>>}, {3000}, {"INSERT", "stats"},
                 MaxMixRuns, MaxMixRuns, MaxMixRuns))

NextMix ==
    \/ \E p \in FlyProcs : FlyInvoke(p)
    \/ \E p \in FlyProcs : FlyStep(p)
    \/ AirInvoke
    \/ AirReturn
    \/ \E q \in AirProcs : AirStep(q)
    \/ ScanStep("s1")

SpecMix == InitMix /\ [][NextMix]_vars

\* --------------------------------------------------------- properties
\* The transfers a distributor invocation has handed to sendTxWithRetry.
Submitted(q) ==
    {i \in 1..Len(aloc[q].batchLog) : aloc[q].batchLog[i].submitted}

\* The cycle of p has computed its estimate and found the native balance
\* below it, with the holdings above the distribution threshold.
ConservingCycle(p) ==
    /\ fpc[p] = "airdrop"
    /\ floc[p].pumpBalance > AIRDROP_THRESHOLD
    /\ floc[p].estimatedAirdropCost >= 0
    /\ floc[p].realBalance < floc[p].estimatedAirdropCost

\* C1: in a flywheel cycle whose reward-token balance is above the threshold
\* and whose native balance is below the estimated cost (and still is when
\* the distributor reads it), the cycle carries the conserving status and no
\* airdrop transfer, bonus or community batch, is submitted.
C1_ConservingSubmitsNothing ==
    \A p \in FlyProcs :
      (ConservingCycle(p)
         /\ aloc[p].solBalance < floc[p].estimatedAirdropCost)
      => /\ floc[p].status = "CONSERVING_SOL"
         /\ Submitted(p) = {}

\* The distributor called by the cycle of p has made its final check.
FinalCheckDone(p) ==
    /\ fpc[p] = "airdrop"
    /\ apc[p] \in {"koth", "lookup", "send", "log", "done"}
    /\ aloc[p].cachedCost.num # 0

\* C2: the cost the distributor's final check compares the native balance
\* with is the number, in lamports, that the flywheel cycle computed and
\* cached as its estimate in the same cycle.
C2_SameCostSameUnit ==
    \A p \in FlyProcs :
      (FinalCheckDone(p) /\ floc[p].estimatedAirdropCost >= 0)
      => aloc[p].cachedCost.num
           = floc[p].estimatedAirdropCost * aloc[p].cachedCost.den

\* Past the guard of runPurchaseAndFees and before its release in finally.
FlyInside == {"fees", "claim", "claimStat", "balance", "atas", "feeTx",
              "swap", "buyStat", "airdrop", "log", "logErr"}

\* Past the guard of processAirdrop and before its release.
AirInside == {"final", "koth", "lookup", "send", "log"}

GuardsExclude ==
    /\ Cardinality({p \in FlyProcs : fpc[p] \in FlyInside}) <= 1
    /\ Cardinality({q \in AirProcs : apc[q] \in AirInside}) <= 1

\* A step in which runPurchaseAndFees is invoked while a cycle is running:
\* nothing but the count of invocations changes.
BlockedCycleIsNoOp ==
    (flyRuns' # flyRuns /\ isBuybackRunning)
    => UNCHANGED <<isBuybackRunning, isAirdropping, globalVars, dbVars,
                   purchaseLog, fpc, floc, airVars, scanVars>>

\* A step in which processAirdrop is invoked while a distribution is
\* running: the invocation is over at once, has sent nothing, and the guard,
\* the audit log and the accounting state are as they were.
BlockedAirdropIsNoOp ==
    \A q \in AirProcs :
      (apc[q] = "idle" /\ apc'[q] # "idle" /\ isAirdropping)
      => /\ apc'[q] = "done"
         /\ aloc'[q].batchLog = <<>>
         /\ UNCHANGED <<isAirdropping, airdrop_logs, devPumpHoldings,
                        totalPoints, userPointsMap, userExpectedAirdrops>>
         /\ q = ExtProc => UNCHANGED <<conservationStatus, stats, purchaseLog,
                                       isBuybackRunning, flyVars>>

\* C3: of each cycle type at most one invocation is past its guard, and an
\* invocation that arrives while one is running submits nothing, logs
\* nothing, changes no shared state and is not started later.
C3_Guards ==
    /\ []GuardsExclude
    /\ [][BlockedCycleIsNoOp /\ BlockedAirdropIsNoOp]_vars

\* Two timer firings with one cycle running and none finished, and a call of
\* processAirdrop that found the distribution of that cycle running.
C3_Witness ==
    /\ flyRuns = 2
    /\ purchaseLog = <<>>
    /\ isBuybackRunning
    /\ isAirdropping
    /\ apc[ExtProc] = "done"
    /\ aloc[ExtProc].outcome = "busy"

\* C4: a guard that is taken is released again, whatever the outcome of the
\* invocation that took it.
C4_GuardsReleased ==
    /\ isBuybackRunning ~> ~isBuybackRunning
    /\ isAirdropping ~> ~isAirdropping

\* A cycle whose distributor threw and that ended in its own catch, both
\* guards released.
C4_Witness ==
    \E p \in FlyProcs :
      /\ fpc[p] = "next"
      /\ floc[p].status = "CRITICAL_ERROR"
      /\ floc[p].estimatedAirdropCost >= 0
      /\ ~isBuybackRunning
      /\ ~isAirdropping

\* The integer shares a distribution has placed into community batches.
RECURSIVE SumAmounts(_)
SumAmounts(items) ==
    IF items = <<>> THEN 0 ELSE Head(items).amount + SumAmounts(Tail(items))

RECURSIVE SumCommunity(_)
SumCommunity(log) ==
    IF log = <<>> THEN 0
    ELSE (IF Head(log).kind # "koth" THEN SumAmounts(Head(log).items) ELSE 0)
         + SumCommunity(Tail(log))

SharesPlaced(q) ==
    SumCommunity(aloc[q].batchLog)
    + (IF aloc[q].phase # "koth" THEN SumAmounts(aloc[q].sending) ELSE 0)

\* C5: the integer shares of one community distribution never add up to more
\* than the community pot in integer units.
C5_SharesWithinPot ==
    \A q \in AirProcs :
      apc[q] \in {"lookup", "send", "log", "done"}
      => SharesPlaced(q) <= aloc[q].communityAmountInt

\* C6: with a point total of 0 or no address with positive points, a
\* distributor invocation submits no transfer, the bonus included, and no
\* audit log entry is written.
C6_SilentAbort ==
    (totalPoints = 0
       \/ \A i \in 1..Len(userPointsMap) : userPointsMap[i].points <= 0)
    => /\ \A q \in AirProcs : Submitted(q) = {}
       /\ airdrop_logs = <<>>

\* C7: the treasury address is in neither map, and no submitted transfer,
\* community batch or bonus, names it as the recipient.
C7_NoTreasuryPayout ==
    /\ \A i \in 1..Len(userPointsMap) : userPointsMap[i].pubkey # DEV
    /\ \A i \in 1..Len(userExpectedAirdrops) :
         userExpectedAirdrops[i].pubkey # DEV
    /\ \A q \in AirProcs : \A i \in Submitted(q) :
         \A k \in 1..Len(aloc[q].batchLog[i].items) :
           aloc[q].batchLog[i].items[k].user # DEV

\* The step of s that ends its scan of a mint, after a step of that scan
\* has thrown.
EndsFailedScan(s) ==
    /\ sloc[s].idx > 0
    /\ sloc'[s].idx # sloc[s].idx
    /\ sloc[s].failed \/ spc[s] = "begin"

\* C8: when a step of the scan of a mint fails, the stored snapshot of the
\* mint is, once the scanner is done with the mint, the one stored before
\* the scan started.
C8_FailedScanKeepsSnapshot ==
    [][\A s \in ScanProcsAll :
         EndsFailedScan(s)
         => SnapshotOf(token_holders', ScanMint(s)) = sloc[s].prev]_vars

\* s is between the DELETE and the COMMIT or ROLLBACK of a replace.
InReplace(s) == spc[s] \in {"insert", "commit", "rollback"} /\ dbTxn.open

\* C9: a read of the holder rows that another invocation is being served
\* while s is inside a replace shows, for the mint of s, the complete
\* previous snapshot or the complete new one.
C9_AtomicReplace ==
    \A s \in ScanProcsAll, r \in ScanProcsAll :
      (s # r /\ InReplace(s) /\ spc[r] = "rows")
      => LET m == ScanMint(s)
             seen == SnapshotOf(token_holders, m)
         IN  \/ seen = SnapshotOf(dbTxn.saved.token_holders, m)
             \/ seen = InsertAll(<<>>, m, sloc[s].holders, 1)

\* C10: once a cycle has published, the holdings and the points in the
\* shared state are those of one and the same cycle.
C10_OneGeneration == pointsGen >= 1 => holdingsGen = pointsGen

\* C11: a step that changes the points map or the expected-reward map is the
\* publication of a recompute cycle and leaves both maps complete: they are
\* the maps computed from the grouped rows, never an empty or partly filled
\* intermediate.
C11_MapsReplacedWhole ==
    [][(userPointsMap' # userPointsMap
          \/ userExpectedAirdrops' # userExpectedAirdrops)
       => \E s \in ScanProcsAll :
            /\ spc[s] = "rows"
            /\ LET ps == PointsState(token_holders, sloc[s].topTokens,
                                     asdfTop50Holders, sloc[s].communityPot,
                                     sloc[s].kothCreator, sloc[s].kothPot)
               IN  /\ userPointsMap' = ps.userPointsMap
                   /\ userExpectedAirdrops' = ps.userExpectedAirdrops]_vars

\* A second cycle has replaced two-entry maps by other two-entry maps.
C11_Witness ==
    /\ pointsGen = 2
    /\ Len(userPointsMap) = 2
    /\ Len(userExpectedAirdrops) = 2
    /\ \E i \in 1..2 : userPointsMap[i].points = 6

\* C12: the entries of the points map add up to the global point total.
C12_SumIsTotal ==
    SumSeq([i \in 1..Len(userPointsMap) |-> userPointsMap[i].points])
      = totalPoints

\* A published map with a doubled entry, after the multiplier set changed.
C12_Witness ==
    /\ pointsGen >= 1
    /\ totalPoints = 7
    /\ \E i \in 1..Len(userPointsMap) :
         /\ userPointsMap[i].pubkey \in asdfTop50Holders
         /\ userPointsMap[i].points = 6

\* C13: a flywheel cycle that has passed its guard and is at or past its
\* logging step has invoked the airdrop distributor, also when a claim, a
\* fee-split transfer, the swap or a balance read failed.
C13_AirdropAlwaysInvoked ==
    \A p \in FlyProcs :
      fpc[p] \in {"log", "logErr", "next"} => floc[p].airdropCalled

\* The buyback transactions (fee-split transfer, swap) a cycle has handed to
\* submission.
BuybackTxs(p) ==
    {i \in 1..Len(floc[p].txs) : floc[p].txs[i].kind \in {"fee", "swap"}}

Stage(pc) ==
    CASE pc \in {"fees", "claim", "claimStat"} -> 1
      [] pc \in {"balance", "atas"} -> 2
      [] pc \in {"feeTx", "swap", "buyStat"} -> 3
      [] pc = "airdrop" -> 4
      [] pc \in {"log", "logErr", "next"} -> 5
      [] OTHER -> 0

\* The transaction the step adds to those of the cycle of p, if it adds one.
AddsTx(p, kinds) ==
    /\ Len(floc'[p].txs) > Len(floc[p].txs)
    /\ floc'[p].txs[Len(floc'[p].txs)].kind \in kinds

\* C15: a cycle never steps back to an earlier stage; the claim transaction
\* is submitted only in the claim stage and a buyback transaction only in the
\* buyback stage; the distributor is started only by the step that ends the
\* decision or the buyback, and the cycle does nothing else until it returns.
C15_StagesInOrder ==
    [][\A p \in FlyProcs :
         /\ (fpc[p] # "idle" /\ fpc'[p] # "idle")
            => Stage(fpc'[p]) >= Stage(fpc[p])
         /\ AddsTx(p, {"claim"}) => Stage(fpc[p]) = 1
         /\ AddsTx(p, {"fee", "swap"}) => Stage(fpc[p]) = 3
         /\ (apc[p] = "idle" /\ apc'[p] # "idle")
            => /\ Stage(fpc[p]) \in {2, 3}
               /\ Stage(fpc'[p]) = 4
         /\ (apc[p] \notin {"idle", "done"})
            => /\ fpc'[p] = "airdrop"
               /\ floc'[p] = floc[p]]_vars

\* A cycle that claimed, bought back and is now awaiting the distributor.
C15_Witness ==
    \E p \in FlyProcs :
      /\ fpc[p] = "airdrop"
      /\ Len(floc[p].txs) = 3
      /\ floc[p].claimedAmount > 0
      /\ floc[p].airdropCalled

\* The recipients of the community batches of a distribution, in the order
\* in which they were placed: the batches handed on so far, then the batch
\* in hand.
RECURSIVE CommunityItems(_)
CommunityItems(log) ==
    IF log = <<>> THEN <<>>
    ELSE (IF Head(log).kind # "koth" THEN Head(log).items ELSE <<>>)
         \o CommunityItems(Tail(log))

Placed(q) ==
    CommunityItems(aloc[q].batchLog)
    \o (IF aloc[q].phase # "koth" THEN aloc[q].sending ELSE <<>>)

\* The position of an address in the points list of the distribution.
PosOf(q, user) ==
    CHOOSE i \in 1..Len(aloc[q].userPoints) : aloc[q].userPoints[i].pubkey = user

\* A reference list: each reference is that of a batch whose submission
\* returned it, the references are in submission order, and the reference of
\* the bonus batch, and only that one, carries the prefix.
RefsInOrder(sigs, log) ==
    /\ \A i \in 1..Len(sigs) :
         /\ sigs[i].sig \in 1..Len(log)
         /\ log[sigs[i].sig].submitted /\ log[sigs[i].sig].ok
         /\ (sigs[i].prefix = "KOTH") <=> (log[sigs[i].sig].kind = "koth")
         /\ sigs[i].prefix = "KOTH" => i = 1
    /\ \A i, j \in 1..Len(sigs) : i < j => sigs[i].sig < sigs[j].sig

\* C16: the bonus batch is the first batch of a distribution; the community
\* batches take the addresses in the order of the points list; the reference
\* list, in memory and as persisted, holds the bonus reference first with its
\* prefix and then the community references in submission order.
C16_BonusFirstBatchesInOrder ==
    \A q \in AirProcs :
      /\ \A i \in 1..Len(aloc[q].batchLog) :
           aloc[q].batchLog[i].kind = "koth" => i = 1
      /\ (aloc[q].batchLog # <<>> /\ aloc[q].kothUser # NoAddr)
         => aloc[q].batchLog[1].kind = "koth"
      /\ \A i, j \in 1..Len(Placed(q)) :
           i < j => PosOf(q, Placed(q)[i].user) < PosOf(q, Placed(q)[j].user)
      /\ RefsInOrder(aloc[q].allSignatures, aloc[q].batchLog)
      /\ apc[q] = "done" /\ aloc[q].outcome = "logged"
         => airdrop_logs[Len(airdrop_logs)].signatures = aloc[q].allSignatures

\* A distribution whose bonus and three community batches all went through
\* and were logged.
C16_Witness ==
    /\ apc[ExtProc] = "done"
    /\ aloc[ExtProc].outcome = "logged"
    /\ Len(airdrop_logs[Len(airdrop_logs)].signatures) = 4
    /\ airdrop_logs[Len(airdrop_logs)].signatures[1].prefix = "KOTH"

\* The bonus batch of q has come back from sendAirdropBatch.
BonusReturned(q) ==
    /\ aloc[q].batchLog # <<>>
    /\ aloc[q].batchLog[1].kind = "koth"
    /\ aloc[q].phase # "koth"

\* C17: after a failed bonus transfer the community pot is the full
\* distributable amount, the bonus amount is 0 and there is no bonus
\* reference; after a successful one the community pot is 90% of the
\* distributable amount and the bonus amount 10%.  The shares are computed
\* from that pot, and the log entry carries the bonus amount.
C17_BonusFoldedBack ==
    \A q \in AirProcs :
      BonusReturned(q)
      => LET dist == aloc[q].totalDistributable
             bonusOk == aloc[q].batchLog[1].submitted /\ aloc[q].batchLog[1].ok
             sigs == aloc[q].allSignatures
         IN  /\ IF bonusOk
                THEN /\ aloc[q].communityAmountInt = ToUnits((dist * 9) \div 10)
                     /\ aloc[q].kothAmount = dist \div 10
                     /\ sigs # <<>> /\ sigs[1].prefix = "KOTH"
                ELSE /\ aloc[q].communityAmountInt = ToUnits(dist)
                     /\ aloc[q].kothAmount = 0
                     /\ \A i \in 1..Len(sigs) : sigs[i].prefix # "KOTH"
             /\ Placed(q) # <<>>
                => Placed(q)[1].amount
                     = (aloc[q].communityAmountInt * aloc[q].userPoints[1].points)
                         \div totalPoints
             /\ aloc[q].outcome = "logged"
                => airdrop_logs[Len(airdrop_logs)].kothAmount = aloc[q].kothAmount

\* A logged distribution whose bonus transfer failed.
C17_Witness ==
    /\ apc[ExtProc] = "done"
    /\ aloc[ExtProc].outcome = "logged"
    /\ aloc[ExtProc].batchLog[1].kind = "koth"
    /\ ~aloc[ExtProc].batchLog[1].ok
    /\ airdrop_logs[Len(airdrop_logs)].kothAmount = 0
    /\ aloc[ExtProc].communityAmountInt = 59400000

\* The community batches of q that have come back from sendAirdropBatch, by
\* their place in the batch log.
CommunityBatches(q) ==
    {i \in 1..Len(aloc[q].batchLog) : aloc[q].batchLog[i].kind # "koth"}

\* C18: the success and failure tallies count the community batches that
\* have come back, one reference is kept for each batch that succeeded and
\* none for one that failed; a distribution that reaches its log step (or
\* ends after it) has handed every address of its points list to a batch,
\* whatever batches failed; the log entry carries the two tallies.
C18_FailedBatchDoesNotAbort ==
    \A q \in AirProcs :
      LET log == aloc[q].batchLog
          okBatches == {i \in CommunityBatches(q) : log[i].ok}
          sigs == aloc[q].allSignatures
      IN  /\ aloc[q].successfulBatches = Cardinality(okBatches)
          /\ aloc[q].failedBatches = Cardinality(CommunityBatches(q) \ okBatches)
          /\ \A i \in CommunityBatches(q) :
               Cardinality({k \in 1..Len(sigs) : sigs[k].sig = i})
                 = IF log[i].ok THEN 1 ELSE 0
          /\ (apc[q] = "log" \/ aloc[q].outcome \in {"logged", "error"})
             => /\ aloc[q].userPoints # <<>>
                /\ Len(Placed(q)) = Len(aloc[q].userPoints)
          /\ aloc[q].outcome = "logged"
             => /\ airdrop_logs[Len(airdrop_logs)].success = aloc[q].successfulBatches
                /\ airdrop_logs[Len(airdrop_logs)].failed = aloc[q].failedBatches

\* Three community batches, the second of which failed: success 2, failed 1,
\* and the references of the bonus, the first and the third batch.
C18_Witness ==
    /\ aloc[ExtProc].outcome = "logged"
    /\ Len(aloc[ExtProc].batchLog) = 4
    /\ aloc[ExtProc].batchLog[2].ok
    /\ ~aloc[ExtProc].batchLog[3].ok
    /\ aloc[ExtProc].batchLog[4].ok
    /\ airdrop_logs[Len(airdrop_logs)].success = 2
    /\ airdrop_logs[Len(airdrop_logs)].failed = 1
    /\ Len(airdrop_logs[Len(airdrop_logs)].signatures) = 3

\* C19: every community batch holds between 1 and 8 recipients, each with a
\* share above zero; every batch but the last one placed holds exactly 8; no
\* address is in two batches, so no batch, failed or not, is handed on twice
\* and no recipient of a failed batch comes back in a later one.
C19_BatchesPartition ==
    \A q \in AirProcs :
      LET log == aloc[q].batchLog
          inHand == IF aloc[q].phase # "koth" THEN aloc[q].sending ELSE <<>>
          last == IF CommunityBatches(q) = {} THEN 0
                  ELSE CHOOSE i \in CommunityBatches(q) :
                         \A j \in CommunityBatches(q) : j <= i
      IN  /\ \A i \in CommunityBatches(q) :
               /\ Len(log[i].items) \in 1..8
               /\ (i # last \/ inHand # <<>>) => Len(log[i].items) = 8
          /\ Len(inHand) <= 8
          /\ \A k \in 1..Len(Placed(q)) : Placed(q)[k].amount > 0
          /\ \A k, m \in 1..Len(Placed(q)) :
               k # m => Placed(q)[k].user # Placed(q)[m].user

\* Seventeen addresses in batches of 8, 8 and 1, the first of which failed.
C19_Witness ==
    /\ apc[ExtProc] = "log"
    /\ Len(aloc[ExtProc].batchLog) = 4
    /\ Len(aloc[ExtProc].batchLog[2].items) = 8
    /\ ~aloc[ExtProc].batchLog[2].ok
    /\ Len(aloc[ExtProc].batchLog[3].items) = 8
    /\ Len(aloc[ExtProc].batchLog[4].items) = 1
    /\ Len(Placed(ExtProc)) = 17

\* The lookups of the batch in hand that have failed so far.
FailedLookups(q) == 3 - aloc[q].retries

\* While a batch is in hand at most two lookups have failed (a third attempt
\* is pending or has succeeded), and a batch that was not submitted has
\* failed.
LookupsBounded ==
    \A q \in AirProcs :
      /\ apc[q] \in {"lookup", "send"} => FailedLookups(q) \in 0..2
      /\ \A i \in 1..Len(aloc[q].batchLog) :
           ~aloc[q].batchLog[i].submitted => ~aloc[q].batchLog[i].ok

\* A failed lookup before the third keeps the batch in hand and builds no
\* transaction; the third records the batch as failed without a submission;
\* a successful one ends the lookups and the transaction is built from its
\* result; only a built transaction is submitted.
LookupStep ==
    \A q \in AirProcs :
      LET grew == Len(aloc'[q].batchLog) = Len(aloc[q].batchLog) + 1
          entry == aloc'[q].batchLog[Len(aloc'[q].batchLog)]
      IN  /\ (apc[q] = "lookup" /\ apc'[q] = "lookup" /\ aloc'[q] # aloc[q]
                /\ ~grew)
             => /\ aloc'[q].retries = aloc[q].retries - 1
                /\ aloc'[q].retries >= 1
                /\ aloc'[q].sending = aloc[q].sending
                /\ aloc'[q].tx = <<>>
          /\ (apc[q] = "lookup" /\ apc'[q] = "send")
             => /\ aloc'[q].retries = aloc[q].retries
                /\ \E missing \in SUBSET (1..Len(aloc[q].sending)) :
                     aloc'[q].tx = Instructions(aloc[q].sending, missing, 1)
                /\ ~grew
          /\ (apc[q] = "lookup" /\ grew)
             => /\ FailedLookups(q) = 2
                /\ ~entry.submitted
                /\ entry.items = aloc[q].sending
          /\ (grew /\ entry.submitted)
             => apc[q] = "send" /\ aloc[q].tx # <<>>

\* C20: the account lookup of one batch is attempted at most 3 times; the
\* first success ends the attempts and the batch is built from its result;
\* after 3 failures the batch is recorded as failed and nothing is submitted
\* for it.
C20_LookupRetries == []LookupsBounded /\ [][LookupStep]_vars

\* A batch given up after three failed lookups, and a later batch that was
\* built after two failed lookups and went through.
C20_Witness ==
    \E i, j \in 1..Len(aloc[ExtProc].batchLog) :
      /\ i < j
      /\ ~aloc[ExtProc].batchLog[i].submitted
      /\ aloc[ExtProc].batchLog[j].submitted
      /\ aloc[ExtProc].batchLog[j].ok
      /\ aloc[ExtProc].retries = 1

\* The positions of the transaction of q that hold an instruction op for
\* the recipient user.
InstrAt(q, op, user) ==
    {k \in 1..Len(aloc[q].tx) :
       aloc[q].tx[k].op = op /\ aloc[q].tx[k].user = user}

\* C21: in the transaction built for a batch every recipient has exactly one
\* transfer instruction, of the amount the batch gives it, and an idempotent
\* account-creation instruction for the recipient stands in the transaction,
\* before its transfer, exactly when the lookup reported its receiving
\* account as missing.
C21_CreateIffMissing ==
    \A q \in AirProcs :
      apc[q] = "send" =>
        /\ \A k \in 1..Len(aloc[q].tx) :
             \E i \in 1..Len(aloc[q].sending) :
               aloc[q].tx[k].user = aloc[q].sending[i].user
        /\ \A i \in 1..Len(aloc[q].sending) :
             LET user == aloc[q].sending[i].user
                 transfers == InstrAt(q, "transfer", user)
                 creates == InstrAt(q, "createIdempotent", user)
             IN  /\ Cardinality(transfers) = 1
                 /\ \A k \in transfers :
                      aloc[q].tx[k].amount = aloc[q].sending[i].amount
                 /\ (creates # {}) <=> (i \in aloc[q].missing)
                 /\ Cardinality(creates) <= 1
                 /\ \A c \in creates : \A k \in transfers : c < k

\* A full community batch whose lookup reported some of the receiving
\* accounts as missing and the others as present.
C21_Witness ==
    /\ apc[ExtProc] = "send"
    /\ aloc[ExtProc].phase = "batch"
    /\ Len(aloc[ExtProc].sending) = BATCH_SIZE
    /\ aloc[ExtProc].missing # {}
    /\ aloc[ExtProc].missing # 1..BATCH_SIZE
    /\ Len(aloc[ExtProc].tx) = BATCH_SIZE + Cardinality(aloc[ExtProc].missing)

\* The step in which the distributor invocation q ends.
AirEnds(q) == apc[q] # "done" /\ apc'[q] = "done"

\* The audit log after the step is the one before it with n entries added.
LogGrowsBy(n) ==
    /\ Len(airdrop_logs') = Len(airdrop_logs) + n
    /\ SubSeq(airdrop_logs', 1, Len(airdrop_logs)) = airdrop_logs

\* The last entry of the audit log records the run of q that has ended.
RecordsRun(log, loc) ==
    LET e == log[Len(log)]
    IN  /\ e.amount = loc.totalDistributable
        /\ e.recipients = Len(loc.userPoints) + (IF loc.kothAmount > 0 THEN 1 ELSE 0)
        /\ e.success = Cardinality({i \in 1..Len(loc.batchLog) :
                          loc.batchLog[i].kind # "koth" /\ loc.batchLog[i].ok})
        /\ e.failed = Cardinality({i \in 1..Len(loc.batchLog) :
                          loc.batchLog[i].kind # "koth" /\ ~loc.batchLog[i].ok})
        /\ e.kothWinner = loc.kothTicker
        /\ e.signatures = loc.allSignatures

PreconditionAborts == {"abortBalance", "abortSol", "abortPoints"}

\* The stretch of a flywheel cycle that writes the cached status (the
\* decision, or the clearing under the threshold) ends in this step.
CycleWritesStatus(p) == fpc[p] \in {"balance", "atas"} /\ fpc'[p] = "airdrop"

\* A run that has persisted its audit log entry has cleared the cached
\* status in the same step.
ClearedOnCompletion ==
    \A q \in AirProcs :
      (AirEnds(q) /\ aloc'[q].outcome = "logged")
      => /\ LogGrowsBy(1)
         /\ conservationStatus' = NoStatus

\* A run that ends at a precondition has not touched the cached status.
KeptOnAbort ==
    \A q \in AirProcs :
      (/\ AirEnds(q)
       /\ aloc'[q].outcome \in PreconditionAborts
       /\ q \in FlyProcs => ~CycleWritesStatus(q))
      => conservationStatus' = conservationStatus

\* A cycle that finds the holdings above the threshold caches the estimate
\* it has computed from its own lookups, whatever was cached before.
RecomputedByCycle ==
    \A p \in FlyProcs :
      (CycleWritesStatus(p) /\ floc'[p].pumpBalance > AIRDROP_THRESHOLD)
      => /\ floc'[p].estimatedAirdropCost =
              floc'[p].missingAtaCount * ATA_RENT_COST + SAFETY_BUFFER
         /\ conservationStatus'.present
         /\ conservationStatus'.estimatedCost =
              Rat(floc'[p].estimatedAirdropCost, LAMPORTS_PER_SOL)
         /\ conservationStatus'.missingAtas = floc'[p].missingAtaCount

\* C23: a distribution that has persisted its audit log entry has cleared
\* the cached conservation estimate, the next flywheel cycle that needs an
\* estimate computes and caches its own, and a distributor run that ends at
\* a precondition leaves the cached estimate as it was.
C23_CacheClearedOnCompletion ==
    [][ClearedOnCompletion /\ KeptOnAbort /\ RecomputedByCycle]_vars

\* A cycle has cached its estimate and its distribution has run to the
\* audit log entry: the cache is empty.
C23_Witness ==
    \E p \in FlyProcs :
      /\ apc[p] = "done"
      /\ aloc[p].outcome = "logged"
      /\ floc[p].estimatedAirdropCost >= 0
      /\ floc[p].missingAtaCount > 0
      /\ Len(airdrop_logs) = 1
      /\ conservationStatus = NoStatus

\* The cycle of p ends its try or catch block in this step: logPurchase has
\* settled and finally runs.
CycleLogged(p) == fpc[p] \in {"log", "logErr"} /\ fpc'[p] = "next"

\* The status tag and reason of the outcome the cycle of p has reached, told
\* from what it read and from the transactions it handed on.
OutcomeOf(p) ==
    LET loc == floc[p]
        swaps == {i \in 1..Len(loc.txs) : loc.txs[i].kind = "swap"}
    IN  IF fpc[p] = "logErr" THEN <<"CRITICAL_ERROR", "error">>
        ELSE IF loc.estimatedAirdropCost >= 0
        THEN IF loc.realBalance < loc.estimatedAirdropCost
             THEN <<"CONSERVING_SOL", "Saving for Airdrop">>
             ELSE <<"SKIPPED", "Ready for Airdrop">>
        ELSE IF \E i \in swaps : loc.txs[i].ok
        THEN <<"SUCCESS", "Flywheel Complete">>
        ELSE IF swaps # {}
        THEN <<"BUY_FAIL", "Unknown">>
        ELSE IF loc.realBalance < SAFETY_BUFFER
        THEN <<"LOW_BALANCE_SKIP", "LOW BALANCE">>
        ELSE <<IF loc.claimedAmount > 0 THEN "LOW_SPEND_SKIP" ELSE "SKIPPED",
               IF loc.feesCollected >= FEE_THRESHOLD
               THEN "Unknown" ELSE "Threshold not met">>

\* A cycle that ends appends one entry with its outcome, and the cycle log
\* changes in no other step and in no other way.
LogsOncePerCycle ==
    /\ \A p \in FlyProcs :
         CycleLogged(p)
         => /\ Len(purchaseLog') = Len(purchaseLog) + 1
            /\ SubSeq(purchaseLog', 1, Len(purchaseLog)) = purchaseLog
            /\ purchaseLog'[Len(purchaseLog')].status = OutcomeOf(p)[1]
            /\ purchaseLog'[Len(purchaseLog')].reason = OutcomeOf(p)[2]
    /\ purchaseLog' # purchaseLog => \E p \in FlyProcs : CycleLogged(p)

\* A cycle past its guard leaves it only through the step that logs.
LeavesThroughLog ==
    \A p \in FlyProcs :
      (fpc[p] \in FlyInside /\ fpc'[p] \notin FlyInside) => CycleLogged(p)

PotsFixed(q) ==
    /\ apc[q] \in {"lookup", "send", "log"}
    /\ ~(BonusReturned(q) /\ ~aloc[q].batchLog[1].ok)
    /\ ~(aloc[q].phase = "koth" /\ aloc[q].retries = 0)

\* C25: the bonus pot and the community pot the distributor works with are
\* the ones the points calculator computes from the same balance, 10% and
\* 90% of 99% of it, also when the tokens table names no bonus-eligible
\* creator.
C25_SamePotsBothSides ==
    \A q \in AirProcs :
      PotsFixed(q)
      => LET dist == TotalDistributable(aloc[q].balance)
         IN  /\ aloc[q].kothAmount = KothPot(dist)
             /\ aloc[q].communityAmount = CommunityPot(dist)

\* The keys of a map kept as a sequence of entries.
Keys(map) == {map[i].pubkey : i \in 1..Len(map)}

\* The creator of the token of the largest market capitalization, when it
\* is registered and is not the treasury.
BonusCreator ==
    LET k == KothToken(tokens)
    IN  IF k.ok /\ k.userPubkey # NoAddr /\ k.userPubkey # DEV
        THEN {k.userPubkey} ELSE {}

\* The points of an address in the published points map, 0 without entry.
PointsOf(addr) ==
    IF addr \in Keys(userPointsMap)
    THEN (CHOOSE e \in Range(userPointsMap) : e.pubkey = addr).points
    ELSE 0

\* The maps are the ones published by the cycle that read the holdings.
Recomputed == pointsGen >= 1 /\ holdingsGen = pointsGen

\* C26: after a recompute the expected-reward map has one entry for every
\* address with points and one for the bonus-eligible creator (when there
\* is one and it is not the treasury), and no other; the entry of an
\* address is its proportional share of the community pot, plus the bonus
\* pot for the bonus-eligible creator, which for a creator without points
\* is the bonus pot alone.
C26_ExpectedRewardMap ==
    Recomputed =>
      LET dist == TotalDistributable(devPumpHoldings)
          bonusPot == dist \div 10
          communityPot == (dist * 9) \div 10
      IN  /\ Keys(userExpectedAirdrops) = Keys(userPointsMap) \cup BonusCreator
          /\ Len(userExpectedAirdrops) = Cardinality(Keys(userExpectedAirdrops))
          /\ \A i \in 1..Len(userExpectedAirdrops) :
               LET e == userExpectedAirdrops[i]
                   share == IF PointsOf(e.pubkey) > 0 /\ communityPot > 0
                            THEN (PointsOf(e.pubkey) * communityPot) \div totalPoints
                            ELSE 0
               IN  e.expected =
                     share + (IF e.pubkey \in BonusCreator THEN bonusPot ELSE 0)

\* A recompute with a positive balance in which the bonus-eligible creator
\* u3 has no points: its entry is the bonus pot.
C26_Witness ==
    /\ Recomputed
    /\ devPumpHoldings > 0
    /\ BonusCreator = {"u3"}
    /\ "u3" \notin Keys(userPointsMap)
    /\ Len(userPointsMap) >= 2
    /\ \E i \in 1..Len(userExpectedAirdrops) :
         /\ userExpectedAirdrops[i].pubkey = "u3"
         /\ userExpectedAirdrops[i].expected = KothPot(TotalDistributable(devPumpHoldings))

\* The ten tokens of the largest volume, by their place in the table.
Tracked == 1..Min(TOP_TOKENS, Len(tokens))

\* The tracked mints whose stored snapshot contains the address.
MintsHeld(addr) ==
    {tokens[i].mint : i \in Tracked} \cap
    {token_holders[k].mint : k \in {j \in 1..Len(token_holders) :
                                       token_holders[j].holderPubkey = addr}}

\* The tracked tokens whose registered creator is the address.
TokensCreated(addr) == {i \in Tracked : tokens[i].userPubkey = addr}

\* The points the address is due from what is stored now.
PointsDue(addr) ==
    (Cardinality(MintsHeld(addr)) + 2 * Cardinality(TokensCreated(addr)))
      * (IF addr \in asdfTop50Holders THEN 2 ELSE 1)

\* C27: a recompute leaves every address but the treasury with the points
\* (tracked mints whose stored snapshot contains it + 2 * tracked tokens it
\* created), doubled for a member of the multiplier set, and without entry
\* when that is 0; the treasury has no entry.
C27_PointsFormula ==
    [][pointsGen' # pointsGen
       => /\ \A addr \in Range(AddrSeq) \ {DEV} :
               PointsOf(addr)' = PointsDue(addr)
          /\ Keys(userPointsMap') \subseteq Range(AddrSeq) \ {DEV}
          /\ \A i \in 1..Len(userPointsMap') : userPointsMap'[i].points > 0
          /\ Len(userPointsMap') = Cardinality(Keys(userPointsMap'))]_vars

\* A recompute has given u1, creator and holder of the tracked mint and a
\* member of the multiplier set, 6 points, and u2, who holds the tracked
\* mint and an untracked one, 1 point, while u3 holds the untracked mint
\* only and has no entry.
C27_Witness ==
    /\ pointsGen >= 1
    /\ PointsOf("u1") = 6
    /\ PointsOf("u2") = 1
    /\ "u3" \notin Keys(userPointsMap)
    /\ \E k \in 1..Len(token_holders) :
         token_holders[k].mint = "m1" /\ token_holders[k].holderPubkey = "u3"
    /\ \E k \in 1..Len(token_holders) :
         token_holders[k].mint = "m1" /\ token_holders[k].holderPubkey = "u2"

\* The ranks of the rows stored for a mint.
RanksOf(mint) ==
    {token_holders[k].rank : k \in {j \in 1..Len(token_holders) :
                                       token_holders[j].mint = mint}}

\* C28: outside a replace, the ranks of the rows stored for a mint are
\* 1..k without gap or duplicate, k being the number of its rows, also
\* after a fetch that shows an owner with several token accounts of the
\* mint.
C28_RanksContiguous ==
    ~dbTxn.open =>
      \A mint \in {"m1", "m2"} :
        LET k == Len(SnapshotOf(token_holders, mint))
        IN  /\ RanksOf(mint) = 1..k
            /\ Cardinality(RanksOf(mint)) = k

\* The reference selection for a fetch result: the accounts (by place in the
\* fetch) that are long enough, hold more than the dust threshold and are
\* owned by neither the liquidity vault nor the mint's escrow account.
Survivors(accounts, mint) ==
    {i \in 1..Len(accounts) :
       /\ accounts[i].len >= ACCOUNT_LAYOUT_LEN
       /\ DecodeLE(accounts[i].amountBytes) > DUST_THRESHOLD
       /\ accounts[i].owner \notin {PUMP_LIQUIDITY, BondingCurvePDA(mint)}}

\* Account j comes before account i: the larger balance first, fetch order
\* among equal balances.
Before(accounts, j, i) ==
    \/ DecodeLE(accounts[j].amountBytes) > DecodeLE(accounts[i].amountBytes)
    \/ /\ DecodeLE(accounts[j].amountBytes) = DecodeLE(accounts[i].amountBytes)
       /\ j < i

RefRank(accounts, mint, i) ==
    1 + Cardinality({j \in Survivors(accounts, mint) : Before(accounts, j, i)})

RefRows(accounts, mint) ==
    {[mint |-> mint, holderPubkey |-> accounts[i].owner,
      rank |-> RefRank(accounts, mint, i)] :
       i \in {j \in Survivors(accounts, mint) :
                 RefRank(accounts, mint, j) <= TOP_HOLDERS}}

\* The step in which s commits the replace of a mint whose fetch and
\* statements all succeeded.
CommitsScan(s) ==
    /\ spc[s] = "commit"
    /\ ~sloc[s].failed
    /\ dbTxn.open
    /\ ~dbTxn'.open

\* C29: the snapshot a successful scan stores for a mint is the reference
\* selection of the fetch result: short buffers dropped, balance descending
\* with fetch order among equal balances, accounts at or below the dust
\* threshold and accounts of the liquidity vault or the mint's escrow
\* discarded, the first 100 survivors ranked 1..N.
C29_SnapshotIsReference ==
    [][\A s \in ScanProcsAll :
         CommitsScan(s)
         => LET stored == SnapshotOf(token_holders', ScanMint(s))
            IN  /\ Range(stored) = RefRows(sloc[s].accounts, ScanMint(s))
                /\ Len(stored) = Cardinality(Range(stored))]_vars

\* The places in toks of the tokens that have a mint, ascending.
RECURSIVE MintPlaces(_, _)
MintPlaces(toks, i) ==
    IF i > Len(toks) THEN <<>>
    ELSE (IF toks[i].mint # NoAddr THEN <<i>> ELSE <<>>) \o MintPlaces(toks, i + 1)

ScanPhases == {"fetch", "begin", "delete", "insert", "commit", "rollback"}

\* A step of s while it scans or persists a mint leaves the invocation in
\* the loop or at the grouped query, with the same list.
StaysInCycle(s) ==
    spc[s] \in ScanPhases
    => /\ spc'[s] \in ScanPhases \cup {"rows"}
       /\ sloc'[s].cycle = sloc[s].cycle
       /\ sloc'[s].topTokens = sloc[s].topTokens

\* The tokens taken up so far are the first ones of the list that have a
\* mint, in list order; all of them once the grouped query is awaited.
ScannedInListOrder(s) ==
    LET all == MintPlaces(sloc'[s].topTokens, 1)
    IN  /\ spc'[s] \in ScanPhases
           => /\ sloc'[s].scanned = Take(all, Len(sloc'[s].scanned))
              /\ sloc'[s].idx = sloc'[s].scanned[Len(sloc'[s].scanned)]
        /\ spc'[s] = "rows" => sloc'[s].scanned = all

\* The grouped query's step publishes the cycle's points.
PublishesAtEnd(s) ==
    spc[s] = "rows"
    => /\ spc'[s] = "idle"
       /\ pointsGen' = sloc[s].cycle
       /\ userPointsMap' =
            PointsState(token_holders, sloc[s].topTokens, asdfTop50Holders,
                        sloc[s].communityPot, sloc[s].kothCreator,
                        sloc[s].kothPot).userPointsMap

\* C30: a failure while one mint is scanned or persisted (the fetch, BEGIN,
\* DELETE, an INSERT, COMMIT or ROLLBACK throws) never ends the cycle: every
\* remaining token of the list with a mint is taken up in list order, and
\* the grouped query and the publication run at the end.
C30_FailureNeverAbortsCycle ==
    [][\A s \in ScanProcsAll :
         StaysInCycle(s) /\ ScannedInListOrder(s) /\ PublishesAtEnd(s)]_vars

\* A ROLLBACK failed in the scan of a mint (the transaction is still open),
\* and the cycle has published since.
C30_Witness ==
    /\ spc["s1"] = "idle"
    /\ scanRuns = 1
    /\ pointsGen = 1
    /\ dbTxn.open

\* C31: a second scanner run on unchanged upstream data stores, for a mint
\* whose snapshot the earlier run stored, the same rows again: the same
\* addresses with the same ranks in the same order.
C31_RescanIsIdempotent ==
    [][\A s \in ScanProcsAll :
         (CommitsScan(s) /\ sloc[s].cycle > 1 /\ sloc[s].prev # <<>>)
         => SnapshotOf(token_holders', ScanMint(s)) = sloc[s].prev]_vars

\* The second run has stored the snapshot of m1 again, over the one the first
\* run stored.
C31_Witness ==
    /\ spc["s1"] = "fetch"
    /\ sloc["s1"].cycle = 2
    /\ ScanMint("s1") = "m2"
    /\ sloc["s1"].prev # <<>>
    /\ Len(SnapshotOf(token_holders, "m1")) = 2
    /\ ~dbTxn.open

\* The owners of the at most 100 largest accounts of a fetch that hold
\* something: account i is among them when fewer than 100 non-zero accounts
\* come before it, the larger balance first, fetch order among equal ones.
LargestOwners(accounts) ==
    LET amount(i) == DecodeLE(accounts[i].amountBytes)
        nonZero == {i \in 1..Len(accounts) : amount(i) > 0}
        ahead(i) == {j \in nonZero :
                       \/ amount(j) > amount(i)
                       \/ amount(j) = amount(i) /\ j < i}
    IN  {accounts[i].owner :
           i \in {k \in nonZero : Cardinality(ahead(k)) < ASDF_TOP_HOLDERS}}

FreshSets == {LargestOwners(accounts) : accounts \in AsdfPool}

IsFloorPerMille(n, pct, x) == 1000 * n <= pct * x /\ pct * x < 1000 * (n + 1)

\* The cycle p is in its buyback: the fee-split transaction or the swap is
\* awaited, or the swap is done.
InBuyback(p) == fpc[p] \in {"feeTx", "swap", "buyStat"}

\* C33: in a buyback the spendable amount is the smaller of the claimed
\* amount and the native balance less the safety buffer, and is not negative;
\* the three parts are the integer parts of 95%, 4.5% and 0.5% of it; their
\* sum is the amount spent and is at most the spendable amount, so what is
\* spent leaves the safety buffer in the balance read.
C33_BuybackSplit ==
    \A p \in FlyProcs :
      InBuyback(p)
      => LET loc == floc[p]
         IN  /\ \/ loc.spendable = loc.claimedAmount
                   /\ loc.claimedAmount <= loc.realBalance - SAFETY_BUFFER
                \/ loc.spendable = loc.realBalance - SAFETY_BUFFER
                   /\ loc.realBalance - SAFETY_BUFFER <= loc.claimedAmount
             /\ loc.spendable >= 0
             /\ IsFloorPerMille(loc.solBuyAmount, 950, loc.spendable)
             /\ IsFloorPerMille(loc.transfer9_5, 45, loc.spendable)
             /\ IsFloorPerMille(loc.transfer0_5, 5, loc.spendable)
             /\ loc.solSpent = loc.solBuyAmount + loc.transfer9_5 + loc.transfer0_5
             /\ loc.solSpent <= loc.spendable
             /\ loc.realBalance - loc.solSpent >= SAFETY_BUFFER

\* A buyback whose swap is done, capped by the balance: less is spent than
\* was claimed, and the parts are rounded down.
C33_Witness ==
    \E p \in FlyProcs :
      /\ fpc[p] = "buyStat"
      /\ floc[p].spendable < floc[p].claimedAmount
      /\ floc[p].solSpent < floc[p].spendable

\* The cycle p hands its claim transaction to submission in this step.
SubmitsClaim(p) ==
    /\ Len(floc'[p].txs) = Len(floc[p].txs) + 1
    /\ floc'[p].txs[Len(floc'[p].txs)].kind = "claim"

\* The cycle p records, in this step, what its claim transaction claimed.
RecordsClaim(p) ==
    /\ fpc[p] = "claimStat"
    /\ \E i \in 1..Len(floc[p].txs) :
         floc[p].txs[i].kind = "claim" /\ floc[p].txs[i].ok
    /\ stats'.lifetimeCreatorFeesLamports =
         stats.lifetimeCreatorFeesLamports + floc[p].claimedAmount

ClaimOnlyAtThreshold ==
    \A p \in FlyProcs : SubmitsClaim(p) => floc[p].feesCollected >= FEE_THRESHOLD

CounterOnlyGrowsByClaims ==
    stats'.lifetimeCreatorFeesLamports # stats.lifetimeCreatorFeesLamports
    => \E p \in FlyProcs : RecordsClaim(p)

CounterNeverDecreases ==
    stats'.lifetimeCreatorFeesLamports >= stats.lifetimeCreatorFeesLamports

\* C34: a claim transaction is submitted only in a cycle whose two vault
\* reads add up to the threshold or more; the lifetime counter of claimed
\* fees never decreases, and it changes only in the step in which a cycle
\* whose claim transaction went through adds the amount it claimed.
C34_ClaimAndCounter ==
    [][ClaimOnlyAtThreshold /\ CounterOnlyGrowsByClaims
       /\ CounterNeverDecreases]_vars

\* The invocation s ends in this step without publishing: the query for the
\* tracked tokens, for the bonus token or for the grouped rows has thrown.
FailsBeforePublication(s) ==
    /\ spc[s] \in {"tokens", "koth", "rows"}
    /\ spc'[s] = "idle"
    /\ pointsGen' # sloc[s].cycle

\* C35: a cycle that fails before its publication leaves the point total,
\* the points map and the expected-reward map as they were, and ends there:
\* the invocation is over and the timer can start the next one.
C35_FailedCycleKeepsPoints ==
    [][\A s \in ScanProcsAll :
         FailsBeforePublication(s)
         => /\ totalPoints' = totalPoints
            /\ userPointsMap' = userPointsMap
            /\ userExpectedAirdrops' = userExpectedAirdrops
            /\ pointsGen' = pointsGen
            /\ sloc'[s] = ScanIdle
            /\ \A t \in ScanProcsAll \ {s} :
                 spc'[t] = spc[t] /\ sloc'[t] = sloc[t]
            /\ UNCHANGED <<isBuybackRunning, isAirdropping, scanRuns, flyVars,
                           airVars>>]_vars

\* The second cycle has failed before its publication: the maps the first
\* cycle published are still there.
C35_Witness ==
    /\ scanRuns = 2
    /\ spc["s1"] = "idle"
    /\ pointsGen = 1
    /\ totalPoints > 0
    /\ userPointsMap # <<>>
    /\ userExpectedAirdrops # <<>>

\* What the batches of a batch log carry.
RECURSIVE SumBatches(_)
SumBatches(log) ==
    IF log = <<>> THEN 0
    ELSE SumAmounts(Head(log).items) + SumBatches(Tail(log))

\* The bonus that went through, and the community shares handed to
\* submission, in integer units.
BonusTransferred(q) ==
    SumBatches(SelectSeq(aloc[q].batchLog,
                         LAMBDA b : b.kind = "koth" /\ b.submitted /\ b.ok))

CommunitySubmitted(q) ==
    SumBatches(SelectSeq(aloc[q].batchLog,
                         LAMBDA b : b.kind # "koth" /\ b.submitted))

\* C36: in one distribution the bonus amount is either transferred or part
\* of the community pot, never both, and the bonus transferred plus the
\* community shares submitted stay within the distributable amount, 99% of
\* the treasury balance the distribution read at its start.
C36_WithinDistributable ==
    \A q \in AirProcs :
      apc[q] \in {"lookup", "send", "log", "done"} /\ aloc[q].phase # "none"
      => LET dist == TotalDistributable(aloc[q].balance)
         IN  /\ BonusReturned(q)
                => /\ aloc[q].kothAmount + aloc[q].communityAmount <= dist
                   /\ BonusTransferred(q) = ToUnits(aloc[q].kothAmount)
             /\ BonusTransferred(q) + CommunitySubmitted(q) <= ToUnits(dist)

\* C37: a flywheel cycle that has submitted a buyback transaction (the
\* fee-split transfer or the swap) submits no airdrop transfer through the
\* distributor it calls, also when the scanner writes the treasury balance
\* between the cycle's decision and the distributor's threshold check.
C37_BuybackOrAirdrop ==
    \A p \in FlyProcs :
      ~(BuybackTxs(p) # {} /\ fpc[p] = "airdrop" /\ Submitted(p) # {})

\* A distributor invocation that is past its threshold check and has handed
\* a transfer to submission.
Distributing(q) ==
    /\ apc[q] \in {"koth", "lookup", "send", "log"}
    /\ Submitted(q) # {}

\* C38: once a distribution has completed (its audit log entry is written),
\* no invocation of processAirdrop submits transfers before the scanner has
\* written a treasury balance again; stated for the balance of construction
\* (holdingsGen = 0: no scanner cycle has written it since).
C38_NoSecondDistributionOnSameReading ==
    (airdrop_logs # <<>> /\ holdingsGen = 0)
    => \A q \in AirProcs : ~Distributing(q)

\* The invocations of updateGlobalState that have started and not ended.
ScansInProgress == {s \in ScanProcsAll : spc[s] # "idle"}

\* C39: at most one scanner cycle is in progress at any time: the timers
\* start no invocation while an earlier one is suspended at an await.
C39_OneScanAtATime == Cardinality(ScansInProgress) <= 1

\* The cycle p has made its estimate.
Estimated(p) ==
    /\ fpc[p] \notin {"idle", "fees", "claim", "claimStat", "balance", "atas"}
    /\ floc[p].estimatedAirdropCost >= 0

\* C40: the estimate of a cycle is never below the rent of the accounts
\* that are missing on the ledger plus the safety buffer, whether the
\* lookups succeeded or not, and it counts every address of a group whose
\* lookup failed; a lookup of the estimation never ends the cycle in its
\* catch block.
C40_FailedLookupCountsAll ==
    [][\A p \in FlyProcs :
         /\ Estimated(p)'
            => /\ floc'[p].estimatedAirdropCost
                    >= floc'[p].absentAtas * ATA_RENT_COST + SAFETY_BUFFER
               /\ floc'[p].estimatedAirdropCost
                    = floc'[p].missingAtaCount * ATA_RENT_COST + SAFETY_BUFFER
               /\ floc'[p].absentAtas <= floc'[p].missingAtaCount
               /\ floc'[p].missingAtaCount <= Len(floc'[p].eligibleUsers)
         /\ fpc[p] = "atas" => fpc'[p] \in {"atas", "airdrop"}]_vars

\* A cycle whose lookup failed while one of its two eligible users had no
\* account: both are counted, and the cycle has gone on to the distributor.
C40_Witness ==
    \E p \in FlyProcs :
      /\ fpc[p] = "airdrop"
      /\ Len(floc[p].eligibleUsers) = 2
      /\ floc[p].absentAtas = 1
      /\ floc[p].missingAtaCount = 2
      /\ floc[p].estimatedAirdropCost = 2 * ATA_RENT_COST + SAFETY_BUFFER

====
